---- MODULE Spec2Model ----
(***************************************************************************)
(* A model of the HR candidate-screening tool: the deterministic fallback  *)
(* scorer (evaluator.py and app.py), the tolerant markdown-table parser    *)
(* (evaluator.py and app.py), the per-candidate control flow of app.py's   *)
(* main, the retry loop of call_gemini_api (ai_service.py and app.py) and  *)
(* the cache of GoogleSheetsAgent.fetch_sheet_data (sheets_agent.py).      *)
(*                                                                         *)
(* Representation.                                                         *)
(*  - A Python string is a sequence of one-character strings.              *)
(*  - A loosely-typed Python value is a record [k, v]: k is the kind       *)
(*    ("absent" for a missing dict key, "null" for None, "str", "list",    *)
(*    "num"), v the payload.                                               *)
(*  - Scores are exact rationals n / Den(t): t is the number of           *)
(*    skills (matched + missing, 1 when there are none), so that the       *)
(*    matched ratio is exact.  Python computes in IEEE doubles; the model  *)
(*    computes the same expressions exactly, so a score that is exactly a  *)
(*    fit threshold here (5.5, 7.5) can be one unit in the last place      *)
(*    below it there.                                                      *)
(***************************************************************************)
EXTENDS Integers, Sequences, FiniteSets, TLC

VARIABLES
    pc,          \* position of the run under check
    ext,         \* scorer input: the extraction mapping (foundational_data)
    ext0,        \* the extraction of the first invocation of the scorer
    cv_len,      \* scorer input: len(cv_text or ""), -1 encodes cv_text = None
    weights,     \* scorer input: the five rubric weights
    crit,        \* scorer input: critical_skills_list
    out_eval,    \* result of evaluator.compute_fallback_score
    out_app,     \* result of app.compute_fallback_score
    prev_eval,   \* evaluator result before the last AddMatched
    prev_app,    \* app result before the last AddMatched
    p_text,      \* parser input: table_string
    p_filename,  \* parser input: filename
    tab,         \* how the input was built: its header cells and data cells
    wrap,        \* the fence or prose put around the input by the last WrapText
    p_eval,      \* result of evaluator.parse_markdown_table
    p_app,       \* result of app.parse_markdown_table
    prev_p_eval, \* evaluator result before the last WrapText
    prev_p_app,  \* app result before the last WrapText
    cv_files,    \* main: the uploaded files, each with its name and text length
    cv_index,    \* main: position of the loop over cv_files (1-based)
    final_table_output, \* main: what the evaluation call returned
    parse_called,       \* main: parse_markdown_table ran for this candidate
    fallback_called,    \* main: compute_fallback_score ran for this candidate
    parsed_from_llm,    \* main: the flag of the same name
    parsed_data,        \* main: the record of this candidate
    evaluated_results,  \* main: the list of records
    api,         \* call: whose call_gemini_api runs, "app" (app.py) or "service" (AIService)
    mime_json,   \* call: response_mime_type == "application/json"
    attempt,     \* call: the loop variable of the retry loop (0-based)
    requests,    \* call: the outcome of every request sent so far, "ok" or "failed"
    backoff,     \* call: AIService's backoff variable
    slept,       \* call: the durations of the sleeps so far, in seconds
    call_result, \* call: what call_gemini_api returned
    extracted,   \* call: what AIService.extract_candidate_data returned
    client,             \* sheets: GoogleSheetsAgent.client is set (authenticated)
    current_sheet_data, \* sheets: the attribute of the same name
    current_sheet_name, \* sheets: the attribute of the same name
    data_cache,         \* sheets: the dict of the same name, cache key -> data
    request,            \* sheets: the last fetch_sheet_data call and what it returned
    fetches             \* sheets: the number of fetch_sheet_data calls so far

scoreVars == <<ext, ext0, cv_len, weights, crit, out_eval, out_app, prev_eval, prev_app>>

parseVars == <<p_text, p_filename, tab, wrap, p_eval, p_app, prev_p_eval, prev_p_app>>

mainVars == <<cv_files, cv_index, final_table_output, parse_called, fallback_called,
              parsed_from_llm, parsed_data, evaluated_results>>

callVars == <<api, mime_json, attempt, requests, backoff, slept, call_result, extracted>>

sheetsVars == <<client, current_sheet_data, current_sheet_name, data_cache, request, fetches>>

vars == <<pc, scoreVars, parseVars, mainVars, callVars, sheetsVars>>

-----------------------------------------------------------------------------
(* Bounds of the model *)

MaxMatched == 2
MaxMissing == 7
MaxQuals == 2
MaxLines == 4

-----------------------------------------------------------------------------
(* Python values *)

Absent == [k |-> "absent", v |-> <<>>]
None == [k |-> "null", v |-> <<>>]
Str(s) == [k |-> "str", v |-> s]
List(l) == [k |-> "list", v |-> l]
AbsentNum == [k |-> "absent", v |-> 0]
NoneNum == [k |-> "null", v |-> 0]
Num(n) == [k |-> "num", v |-> n]

Min(a, b) == IF a <= b THEN a ELSE b
Max(a, b) == IF a >= b THEN a ELSE b

\* All sequences over S of length 0..n
SeqsUpTo(S, n) == UNION {[1..m -> S] : m \in 0..n}

\* The list of length n whose entries are all e
Repeat(e, n) == [i \in 1..n |-> e]

-----------------------------------------------------------------------------
(* str methods *)

UpperCase == <<"A","B","C","D","E","F","G","H","I","J","K","L","M",
               "N","O","P","Q","R","S","T","U","V","W","X","Y","Z">>
LowerCase == <<"a","b","c","d","e","f","g","h","i","j","k","l","m",
               "n","o","p","q","r","s","t","u","v","w","x","y","z">>
Digits == {"0","1","2","3","4","5","6","7","8","9"}
NL == "\n"
WhiteSpace == {" ", NL, "\t"}

LowerChar(c) ==
    IF \E i \in 1..26 : UpperCase[i] = c
    THEN LowerCase[CHOOSE i \in 1..26 : UpperCase[i] = c]
    ELSE c

\* str.lower()
Lower(s) == [i \in 1..Len(s) |-> LowerChar(s[i])]

\* str.lstrip(), str.rstrip(), str.strip()
RECURSIVE LStrip(_)
LStrip(s) == IF s # <<>> /\ Head(s) \in WhiteSpace THEN LStrip(Tail(s)) ELSE s

RECURSIVE RStrip(_)
RStrip(s) ==
    IF s # <<>> /\ s[Len(s)] \in WhiteSpace THEN RStrip(SubSeq(s, 1, Len(s) - 1)) ELSE s

Strip(s) == LStrip(RStrip(s))

\* needle in hay
Contains(hay, needle) ==
    \E i \in 1..(Len(hay) - Len(needle) + 1) :
        SubSeq(hay, i, i + Len(needle) - 1) = needle

\* str.startswith
StartsWith(s, p) == Len(s) >= Len(p) /\ SubSeq(s, 1, Len(p)) = p

\* sep.join(parts)
RECURSIVE Join(_, _)
Join(parts, sep) ==
    IF parts = <<>> THEN <<>>
    ELSE IF Len(parts) = 1 THEN parts[1]
    ELSE parts[1] \o sep \o Join(Tail(parts), sep)

-----------------------------------------------------------------------------
(* Exact scores: the rational n / Den(t) *)

Den(t) == 100000 * t

\* The score x / 1000 (x in thousandths) over the denominator of t
Thousandths(x, t) == x * (Den(t) \div 1000)

ScoreGE(s, x) == s.n >= Thousandths(x, s.t)
ScoreLE(s, x) == s.n <= Thousandths(x, s.t)
ScoreLT(s, x) == s.n < Thousandths(x, s.t)

\* s1 <= s2 for scores over different denominators
ScoreLeq(s1, s2) == s1.n * s2.t <= s2.n * s1.t

\* max(lo, min(hi, score)), lo and hi in thousandths
Clamp(n, t, lo, hi) == Max(Thousandths(lo, t), Min(Thousandths(hi, t), n))

\* int(round(matched_ratio * 100)): Python 3 rounds halves to the even integer
RoundHalfEven(num, den) ==
    LET q == num \div den
        r == num % den
    IN  IF 2 * r < den THEN q
        ELSE IF 2 * r > den THEN q + 1
        ELSE IF q % 2 = 0 THEN q ELSE q + 1

-----------------------------------------------------------------------------
(* dict.get with the defaults of compute_fallback_score *)

\* foundational_data.get(key, []) or []
GetList(f) == IF f.k = "list" THEN f.v ELSE <<>>

\* foundational_data.get("relevant_experience_summary") or ""
GetText(f) == IF f.k = "str" THEN f.v ELSE <<>>

\* foundational_data.get("years_of_experience", 0) or 0
GetYears(f) == IF f.k = "num" THEN f.v ELSE 0

\* weights.get(key, default)
GetWeight(f, default) == IF f.k = "num" THEN f.v ELSE default

Raised == [k |-> "raise", score |-> [n |-> 0, t |-> 1], fit |-> "", rationale |-> <<>>]
NotRun == [k |-> "none", score |-> [n |-> 0, t |-> 1], fit |-> "", rationale |-> <<>>]
Returned(n, t, fit, rationale) ==
    [k |-> "ok", score |-> [n |-> n, t |-> t], fit |-> fit, rationale |-> rationale]

\* One sentence of the rationale: the f-string template and its arguments
Sentence(tag, a, b, c, txt) == [s |-> tag, a |-> a, b |-> b, c |-> c, txt |-> txt]

-----------------------------------------------------------------------------
(* evaluator.compute_fallback_score *)

seniority_keywords ==
    << <<"s","e","n","i","o","r">>, <<"l","e","a","d">>,
       <<"m","a","n","a","g","e","r">>, <<"p","r","i","n","c","i","p","a","l">>,
       <<"h","e","a","d">>, <<"d","i","r","e","c","t","o","r">>, <<"v","p">>,
       <<"v","i","c","e"," ","p","r","e","s","i","d","e","n","t">>,
       <<"c","t","o">>, <<"c","e","o">> >>

\* any(k in exp_summary for k in keywords)
AnyKeyword(exp_summary, keywords) ==
    \E i \in 1..Len(keywords) : Contains(exp_summary, keywords[i])

\* crit_lower without the filter: blank entries stay, as empty strings
CritLowerKeepBlank(cs) == [i \in 1..Len(cs) |-> Lower(Strip(cs[i]))]

\* [c.strip().lower() for c in critical_skills_list if c.strip()]
RECURSIVE CritLower(_)
CritLower(cs) ==
    IF cs = <<>> THEN <<>>
    ELSE IF Strip(Head(cs)) # <<>>
         THEN <<Lower(Strip(Head(cs)))>> \o CritLower(Tail(cs))
         ELSE CritLower(Tail(cs))

\* any(crit in s.lower() for s in matched): "true", "false", or "raise" when a
\* None entry is reached before a match (None has no lower()).  With nullsafe
\* the entry is read as (s or ""), and None never raises.
RECURSIVE AnyMatch(_, _, _)
AnyMatch(c, matched, nullsafe) ==
    IF matched = <<>> THEN "false"
    ELSE IF Head(matched).k # "str" /\ ~nullsafe THEN "raise"
    ELSE IF Contains(Lower(GetText(Head(matched))), c) THEN "true"
    ELSE AnyMatch(c, Tail(matched), nullsafe)

\* the missing_criticals list built by the loop over crit_lower
RECURSIVE MissingCriticals(_, _, _)
MissingCriticals(cl, matched, nullsafe) ==
    IF cl = <<>> THEN <<>>
    ELSE IF AnyMatch(Head(cl), matched, nullsafe) = "false"
         THEN <<Head(cl)>> \o MissingCriticals(Tail(cl), matched, nullsafe)
         ELSE MissingCriticals(Tail(cl), matched, nullsafe)

\* whether the loop over crit_lower raises
CritRaises(cl, matched, nullsafe) ==
    \E i \in 1..Len(cl) : AnyMatch(cl[i], matched, nullsafe) = "raise"

Phd == <<"p","h","d">>
Doctorate == <<"d","o","c","t","o","r","a","t","e">>
Master == <<"m","a","s","t","e","r">>
Mba == <<"m","b","a">>
Bachelor == <<"b","a","c","h","e","l","o","r">>
Unknown == <<"u","n","k","n","o","w","n">>

\* edu_score without the tiers: 0.5 for every education level
EvalEduScoreFlat(education) == 500

\* edu_score, in thousandths
EvalEduScore(education) ==
    IF Contains(education, Phd) \/ Contains(education, Doctorate) THEN 1000
    ELSE IF Contains(education, Master) \/ Contains(education, Mba) THEN 850
    ELSE IF Contains(education, Bachelor) THEN 700
    ELSE 500

\* cv_clarity_score, in thousandths
EvalClarity(len) ==
    IF len > 2000 THEN 1000
    ELSE IF len > 800 THEN 700
    ELSE IF len > 300 THEN 400
    ELSE 150

\* miss_penalty with the 0.2 per missing skill of app.py
EvalMissPenaltyHalf(missing_count) == Min(2500, missing_count * 200)

\* miss_penalty without max_penalty
EvalMissPenaltyUncapped(missing_count) == missing_count * 400

\* miss_penalty = min(max_penalty, missing_count * penalty_per_missing), thousandths
EvalMissPenalty(missing_count) == Min(2500, missing_count * 400)

\* EvalCritical with the cap written as a subtraction of 1.0
EvalCriticalAdditive(n, t, missing_criticals) ==
    IF missing_criticals # <<>> THEN n - Thousandths(1000, t) ELSE n

\* EvalCritical with a cap of 6.0, above the Medium threshold
EvalCriticalCapSix(n, t, missing_criticals) ==
    IF missing_criticals # <<>> THEN Min(n, Thousandths(6000, t)) ELSE n

\* the critical-skill step: score = min(score, 4.5)
EvalCritical(n, t, missing_criticals) ==
    IF missing_criticals # <<>> THEN Min(n, Thousandths(4500, t)) ELSE n

\* EvalClamp with the upper bound forgotten
EvalClampLowerOnly(n, t) == Max(Thousandths(0, t), n)

\* the final clamp: max(0.0, min(10.0, score))
EvalClamp(n, t) == Clamp(n, t, 0, 10000)

\* EvalFit with the thresholds of app.py's profile (7.5 and 5.0)
EvalFitSoft(s) ==
    IF ScoreGE(s, 7500) THEN "High"
    ELSE IF ScoreGE(s, 5000) THEN "Medium"
    ELSE "Low"

\* the fit label of a score
EvalFit(s) ==
    IF ScoreGE(s, 8000) THEN "High"
    ELSE IF ScoreGE(s, 5500) THEN "Medium"
    ELSE "Low"

\* EvalMatchedRatio counting the missing skills instead of the matched ones
EvalMatchedRatioOfMissing(matched_count, missing_count) == missing_count

\* matched_ratio's numerator over t
EvalMatchedRatio(matched_count, missing_count) == matched_count

\* rationale_parts with the sentence of the missing-skill penalty put first
EvalRationalePenaltyFirst(matched_count, total, percent, years_exp, education, top_quals, quant_ach, missing_count, cs, missing_criticals) ==
    (IF missing_count # 0 THEN <<Sentence("Penalty", missing_count, 0, 0, <<>>)>> ELSE <<>>)
    \o <<Sentence("Matched", matched_count, total, percent, <<>>)>>
    \o (IF years_exp > 0 THEN <<Sentence("years", years_exp, 0, 0, <<>>)>> ELSE <<>>)
    \o (IF education # Unknown THEN <<Sentence("Education", 0, 0, 0, education)>> ELSE <<>>)
    \o (IF top_quals # <<>>
        THEN <<Sentence("qualifications", Len(top_quals), 0, 0, <<>>)>> ELSE <<>>)
    \o (IF quant_ach # <<>>
        THEN <<Sentence("achievements", Len(quant_ach), 0, 0, <<>>)>> ELSE <<>>)
    \o (IF cs # <<>> /\ missing_criticals # <<>>
        THEN <<Sentence("Critical", 0, 0, 0, Join(missing_criticals, <<",", " ">>))>>
        ELSE <<>>)

\* rationale_parts: the sentences of the rationale, in the order of the appends
EvalRationale(matched_count, total, percent, years_exp, education, top_quals, quant_ach, missing_count, cs, missing_criticals) ==
    <<Sentence("Matched", matched_count, total, percent, <<>>)>>
    \o (IF years_exp > 0 THEN <<Sentence("years", years_exp, 0, 0, <<>>)>> ELSE <<>>)
    \o (IF education # Unknown THEN <<Sentence("Education", 0, 0, 0, education)>> ELSE <<>>)
    \o (IF top_quals # <<>>
        THEN <<Sentence("qualifications", Len(top_quals), 0, 0, <<>>)>> ELSE <<>>)
    \o (IF quant_ach # <<>>
        THEN <<Sentence("achievements", Len(quant_ach), 0, 0, <<>>)>> ELSE <<>>)
    \o (IF missing_count # 0 THEN <<Sentence("Penalty", missing_count, 0, 0, <<>>)>> ELSE <<>>)
    \o (IF cs # <<>> /\ missing_criticals # <<>>
        THEN <<Sentence("Critical", 0, 0, 0, Join(missing_criticals, <<",", " ">>))>>
        ELSE <<>>)

\* a scorer with memory: the score depends on whether a call came before
EvalScoreWithMemory(fd, cvl, w, cs) ==
    Returned(IF pc = "input" THEN 0 ELSE Den(1), 1, "Low", <<>>)

EvalScore(fd, cvl, w, cs) ==
    IF fd.k # "dict" \/ fd.education_level.k = "null" THEN Raised
    ELSE
    LET matched == GetList(fd.matched_skills_full)
        missing == GetList(fd.missing_skills_full)
        top_quals == GetList(fd.top_qualifications_full)
        quant_ach == GetList(fd.quantifiable_achievements_full)
        exp_summary == Lower(GetText(fd.relevant_experience_summary))
        years_exp == GetYears(fd.years_of_experience)
        education == Lower(GetText(fd.education_level))
        matched_count == Len(matched)
        missing_count == Len(missing)
        total_skill_candidates == matched_count + missing_count
        t == IF total_skill_candidates > 0 THEN total_skill_candidates ELSE 1
        ratio_num == IF total_skill_candidates > 0
                     THEN EvalMatchedRatio(matched_count, missing_count) ELSE 0
        qual_score == Min(1000, Len(top_quals) * 500)
        ach_score == Min(1000, Len(quant_ach) * 500)
        exp_presence == IF Strip(exp_summary) # <<>> THEN 1000 ELSE 0
        seniority_score == IF AnyKeyword(exp_summary, seniority_keywords) THEN 1000 ELSE 0
        years_score == Min(1000, years_exp * 100)
        edu_score == EvalEduScore(education)
        cv_clarity_score == EvalClarity(Max(cvl, 0))
        mw == GetWeight(w.matched_skills_w, 50)
        ew == GetWeight(w.experience_relevance_w, 20)
        qw == GetWeight(w.qualifications_w, 15)
        sw == GetWeight(w.seniority_w, 10)
        cw == GetWeight(w.cv_clarity_w, 5)
        comp_exp == (exp_presence * 4 + years_score * 6) \div 10
        comp_qual == (qual_score * 5 + ach_score * 3 + edu_score * 2) \div 10
        comp_sen == seniority_score
        comp_clar == cv_clarity_score
        \* weighted_percent * Den(t)
        weighted == ratio_num * 1000 * mw
                    + t * (comp_exp * ew + comp_qual * qw + comp_sen * sw + comp_clar * cw)
        base == Den(t) + 9 * weighted - Thousandths(EvalMissPenalty(missing_count), t)
        crit_lower == CritLower(cs)
        missing_criticals == MissingCriticals(crit_lower, matched, FALSE)
        n == EvalClamp(EvalCritical(base, t, missing_criticals), t)
        percent == RoundHalfEven(ratio_num * 100, t)
        rationale == EvalRationale(matched_count, total_skill_candidates, percent, years_exp,
                                   education, top_quals, quant_ach, missing_count, cs,
                                   missing_criticals)
    IN  IF cs # <<>> /\ CritRaises(crit_lower, matched, FALSE) THEN Raised
        ELSE Returned(n, t, EvalFit([n |-> n, t |-> t]), rationale)

-----------------------------------------------------------------------------
(* app.compute_fallback_score *)

\* the first six keywords: app.py's list has no vp, vice president, cto, ceo
app_seniority_keywords == SubSeq(seniority_keywords, 1, 6)

\* cv_clarity_score, in thousandths
AppClarity(len) ==
    IF len > 2000 THEN 1000
    ELSE IF len > 800 THEN 800
    ELSE IF len > 300 THEN 600
    ELSE 300

\* miss_penalty, in thousandths
AppMissPenalty(missing_count) == Min(1500, missing_count * 200)

\* the critical-skill step: score -= critical_penalty (1.0 when one is missing)
AppCritical(n, t, missing_criticals) ==
    IF missing_criticals # <<>> THEN n - Thousandths(1000, t) ELSE n

\* the final clamp: max(1.0, min(10.0, score))
AppClamp(n, t) == Clamp(n, t, 1000, 10000)

\* the fit label of a score
AppFit(s) ==
    IF ScoreGE(s, 7500) THEN "High"
    ELSE IF ScoreGE(s, 5000) THEN "Medium"
    ELSE "Low"

AppScore(fd, cvl, w, cs) ==
    IF fd.k # "dict" THEN Raised
    ELSE
    LET matched == GetList(fd.matched_skills_full)
        missing == GetList(fd.missing_skills_full)
        top_quals == GetList(fd.top_qualifications_full)
        quant_ach == GetList(fd.quantifiable_achievements_full)
        exp_summary == Lower(GetText(fd.relevant_experience_summary))
        matched_count == Len(matched)
        missing_count == Len(missing)
        total_skill_candidates == matched_count + missing_count
        t == IF total_skill_candidates > 0 THEN total_skill_candidates ELSE 1
        ratio_num == IF total_skill_candidates > 0 THEN matched_count ELSE 0
        qual_score == Min(1000, Len(top_quals) * 500)
        ach_score == Min(1000, Len(quant_ach) * 500)
        exp_presence == IF Strip(exp_summary) # <<>> THEN 1000 ELSE 0
        seniority_score ==
            IF AnyKeyword(exp_summary, app_seniority_keywords) THEN 1000 ELSE 0
        cv_clarity_score == AppClarity(Max(cvl, 0))
        mw == GetWeight(w.matched_skills_w, 50)
        ew == GetWeight(w.experience_relevance_w, 20)
        qw == GetWeight(w.qualifications_w, 15)
        sw == GetWeight(w.seniority_w, 10)
        cw == GetWeight(w.cv_clarity_w, 5)
        comp_exp == exp_presence
        comp_qual == (qual_score + ach_score) \div 2
        comp_sen == seniority_score
        comp_clar == cv_clarity_score
        weighted == ratio_num * 1000 * mw
                    + t * (comp_exp * ew + comp_qual * qw + comp_sen * sw + comp_clar * cw)
        base == 3 * Den(t) + 7 * weighted - Thousandths(AppMissPenalty(missing_count), t)
        missing_criticals ==
            IF cs # <<>> THEN MissingCriticals(CritLower(cs), matched, TRUE) ELSE <<>>
        n == AppClamp(AppCritical(base, t, missing_criticals), t)
        percent == RoundHalfEven(ratio_num * 100, t)
        rationale ==
            (IF total_skill_candidates > 0
             THEN <<Sentence("Matched", matched_count, total_skill_candidates, percent, <<>>)>>
             ELSE <<Sentence("NoSkills", 0, 0, 0, <<>>)>>)
            \o (IF top_quals # <<>>
                THEN <<Sentence("qualifications", Len(top_quals), 0, 0, <<>>)>> ELSE <<>>)
            \o (IF quant_ach # <<>>
                THEN <<Sentence("achievements", Len(quant_ach), 0, 0, <<>>)>> ELSE <<>>)
            \o (IF missing_count # 0
                THEN <<Sentence("Penalty", missing_count, 0, 0, <<>>)>> ELSE <<>>)
            \o (IF missing_criticals # <<>>
                THEN <<Sentence("Critical", 0, 0, 0, Join(missing_criticals, <<",", " ">>))>>
                ELSE <<>>)
    IN  Returned(n, t, AppFit([n |-> n, t |-> t]), rationale)

-----------------------------------------------------------------------------
(* Text helpers of the table parser *)

Bar == "|"
\* the backquote character (a TLA+ string cannot hold one)
Tick == "backquote"
Fence == <<Tick, Tick, Tick>>

AlnumChars == {UpperCase[i] : i \in 1..26} \cup {LowerCase[i] : i \in 1..26} \cup Digits
IsAlnum(c) == c \in AlnumChars

EndsWith(s, p) == Len(s) >= Len(p) /\ SubSeq(s, Len(s) - Len(p) + 1, Len(s)) = p

\* s without its first n characters
Drop(s, n) == SubSeq(s, n + 1, Len(s))

\* s without its longest prefix of characters of the set S
RECURSIVE DropWhile(_, _)
DropWhile(s, S) == IF s # <<>> /\ Head(s) \in S THEN DropWhile(Tail(s), S) ELSE s

\* the pieces of s between the occurrences of the character c: s.split(c)
RECURSIVE Split(_, _)
Split(s, c) ==
    IF \E i \in 1..Len(s) : s[i] = c
    THEN LET i == CHOOSE i \in 1..Len(s) : s[i] = c /\ \A j \in 1..(i - 1) : s[j] # c
         IN  <<SubSeq(s, 1, i - 1)>> \o Split(Drop(s, i), c)
    ELSE <<s>>

NotBlank(ln) == Strip(ln) # <<>>

\* NonEmptyLines without the filter on blank lines
AllLines(txt) ==
    LET kept == Split(txt, NL)
    IN  [i \in 1..Len(kept) |-> RStrip(kept[i])]

\* [ln.rstrip() for ln in txt.splitlines() if ln.strip()]
NonEmptyLines(txt) ==
    LET kept == SelectSeq(Split(txt, NL), NotBlank)
    IN  [i \in 1..Len(kept) |-> RStrip(kept[i])]

\* the first re.sub of parse_markdown_table: an opening fence at the start of
\* the text goes, with its language tag and the white space after it
StripLeadingFence(txt) ==
    IF StartsWith(LStrip(txt), Fence)
    THEN DropWhile(DropWhile(Drop(LStrip(txt), 3), AlnumChars), WhiteSpace)
    ELSE txt

\* the second re.sub of parse_markdown_table: a closing fence at the end of the text goes,
\* with the white space around it
StripTrailingFence(txt) ==
    IF EndsWith(RStrip(txt), Fence)
    THEN RStrip(SubSeq(RStrip(txt), 1, Len(RStrip(txt)) - 3))
    ELSE txt

\* m.strip(backquote)
RECURSIVE StripTicks(_)
StripTicks(m) ==
    IF m # <<>> /\ Head(m) = Tick THEN StripTicks(Tail(m))
    ELSE IF m # <<>> /\ m[Len(m)] = Tick THEN StripTicks(SubSeq(m, 1, Len(m) - 1))
    ELSE m

\* the first index >= from at which a fence starts, 0 when there is none
FenceAt(s, i) == i + 2 <= Len(s) /\ SubSeq(s, i, i + 2) = Fence
FirstFence(s, from) ==
    IF \E i \in from..Len(s) : FenceAt(s, i)
    THEN CHOOSE i \in from..Len(s) :
            FenceAt(s, i) /\ \A j \in from..(i - 1) : ~FenceAt(s, j)
    ELSE 0

\* app.strip_code_fences: every fenced block (shortest match, left to right)
\* is replaced by itself with the backticks at its two ends stripped
RECURSIVE strip_code_fences(_)
strip_code_fences(text) ==
    LET i == FirstFence(text, 1)
        j == IF i = 0 THEN 0 ELSE FirstFence(text, i + 3)
    IN  IF i = 0 \/ j = 0 THEN text
        ELSE SubSeq(text, 1, i - 1) \o StripTicks(SubSeq(text, i, j + 2))
             \o strip_code_fences(Drop(text, j + 2))

\* [c.strip() for c in line.split('|') if c.strip()]
Cells(line) ==
    LET kept == SelectSeq(Split(line, Bar), NotBlank)
    IN  [i \in 1..Len(kept) |-> Strip(kept[i])]

\* the data row reconciled to the header's number of columns
Reconcile(headers, data_row) ==
    IF Len(data_row) < Len(headers)
    THEN data_row \o [i \in 1..(Len(headers) - Len(data_row)) |-> <<>>]
    ELSE SubSeq(data_row, 1, Len(headers))

-----------------------------------------------------------------------------
(* Python dicts, as sequences of <<key, value>> in insertion order *)

DictHas(d, key) == \E i \in 1..Len(d) : d[i][1] = key

\* d[key] = value: in place when the key is there, appended otherwise
DictSet(d, key, value) ==
    IF DictHas(d, key)
    THEN [i \in 1..Len(d) |-> IF d[i][1] = key THEN <<key, value>> ELSE d[i]]
    ELSE Append(d, <<key, value>>)

\* d.get(key, default)
DictGet(d, key, default) ==
    IF DictHas(d, key) THEN d[CHOOSE i \in 1..Len(d) : d[i][1] = key][2] ELSE default

\* dict(zip(keys, values))
RECURSIVE DictZip(_, _, _)
DictZip(d, keys, values) ==
    IF keys = <<>> \/ values = <<>> THEN d
    ELSE DictZip(DictSet(d, Head(keys), Head(values)), Tail(keys), Tail(values))

\* re.sub(r'[^A-Za-z0-9 ]', '', k).strip()
KeepsInKey(c) == IsAlnum(c) \/ c = " "
NormKey(k) == Strip(SelectSeq(k, KeepsInKey))

\* the loop normalized[norm_k] = v over result.items()
RECURSIVE Normalize(_, _)
Normalize(normalized, items) ==
    IF items = <<>> THEN normalized
    ELSE Normalize(DictSet(normalized, NormKey(Head(items)[1]), Head(items)[2]),
                   Tail(items))

-----------------------------------------------------------------------------
(* parse_markdown_table: the mapping built from a header line and a data line *)

K_Score == <<"S","c","o","r","e">>
K_score == <<"s","c","o","r","e">>
K_Fit == <<"F","i","t">>
K_fit == <<"f","i","t">>
K_Rationale == <<"R","a","t","i","o","n","a","l","e">>
K_rationale == <<"r","a","t","i","o","n","a","l","e">>
K_Matched == <<"M","a","t","c","h","e","d">>
K_Missing == <<"M","i","s","s","i","n","g">>
K_Skills == <<"S","k","i","l","l","s">>
K_Top == <<"T","o","p">>
K_Qualifications == <<"Q","u","a","l","i","f","i","c","a","t","i","o","n","s">>
K_Quantifiable == <<"Q","u","a","n","t","i","f","i","a","b","l","e">>
K_Achievements == <<"A","c","h","i","e","v","e","m","e","n","t","s">>
K_filename == <<"f","i","l","e","n","a","m","e">>

\* the seven canonical keys, in the order of the mapped dict, each with the two
\* header spellings the mapping tries
CanonicalKeys ==
    << [key |-> "Score", first |-> K_Score, second |-> K_score],
       [key |-> "Fit", first |-> K_Fit, second |-> K_fit],
       [key |-> "Rationale", first |-> K_Rationale, second |-> K_rationale],
       [key |-> "Matched Skills", first |-> K_Matched \o <<" ">> \o K_Skills,
        second |-> K_Matched \o K_Skills],
       [key |-> "Missing Skills", first |-> K_Missing \o <<" ">> \o K_Skills,
        second |-> K_Missing \o K_Skills],
       [key |-> "Top Qualifications", first |-> K_Top \o <<" ">> \o K_Qualifications,
        second |-> K_Top \o K_Qualifications],
       [key |-> "Quantifiable Achievements",
        first |-> K_Quantifiable \o <<" ">> \o K_Achievements,
        second |-> K_Quantifiable \o K_Achievements] >>

CanonicalNames == {CanonicalKeys[i].key : i \in 1..Len(CanonicalKeys)}

\* the failure result
ParseError(filename, message) == [x \in {"filename", "error"} |->
                                     IF x = "filename" THEN filename ELSE message]

\* the cells of the data row, as the parser keeps them
DataCells(line) ==
    LET pieces == Split(line, Bar)
        kept == SelectSeq(pieces, NotBlank)
    IN  [i \in 1..Len(kept) |-> Strip(kept[i])]

\* MappedRow returning only the canonical keys the table has
MappedRowSparse(header_line, data_line, filename) ==
    LET headers == Cells(header_line)
        data_row == Reconcile(headers, DataCells(data_line))
        result == DictSet(DictZip(<<>>, headers, data_row), K_filename, filename)
        normalized == Normalize(<<>>, result)
        Found(c) == DictHas(normalized, c.first) \/ DictHas(normalized, c.second)
        Lookup(c) == DictGet(normalized, c.first, DictGet(normalized, c.second, <<>>))
        found == {CanonicalKeys[i].key : i \in {j \in 1..Len(CanonicalKeys) : Found(CanonicalKeys[j])}}
    IN  [x \in found \cup {"filename"} |->
            IF x = "filename" THEN filename
            ELSE Lookup(CanonicalKeys[CHOOSE i \in 1..Len(CanonicalKeys) :
                                          CanonicalKeys[i].key = x])]

\* from headers = ... to return mapped
MappedRow(header_line, data_line, filename) ==
    LET headers == Cells(header_line)
        data_row == Reconcile(headers, DataCells(data_line))
        result == DictSet(DictZip(<<>>, headers, data_row), K_filename, filename)
        normalized == Normalize(<<>>, result)
        Lookup(c) == DictGet(normalized, c.first, DictGet(normalized, c.second, <<>>))
    IN  [x \in CanonicalNames \cup {"filename"} |->
            IF x = "filename" THEN filename
            ELSE Lookup(CanonicalKeys[CHOOSE i \in 1..Len(CanonicalKeys) :
                                          CanonicalKeys[i].key = x])]

-----------------------------------------------------------------------------
(* evaluator.parse_markdown_table *)

\* the first line with both a vertical bar and the word Score, 0 when none
EvalHeaderLine(ln) == Contains(ln, <<Bar>>) /\ Contains(ln, K_Score)

EvalHeaderIdx(lines) ==
    IF \E i \in 1..Len(lines) : EvalHeaderLine(lines[i])
    THEN CHOOSE i \in 1..Len(lines) :
            EvalHeaderLine(lines[i]) /\ \A j \in 1..(i - 1) : ~EvalHeaderLine(lines[j])
    ELSE 0

EvalParse(table_string, filename) ==
    IF table_string.k # "str" THEN ParseError(filename, "No table string provided.")
    ELSE IF Strip(table_string.v) = <<>> THEN ParseError(filename, "Empty string.")
    ELSE
    LET txt == StripTrailingFence(StripLeadingFence(Strip(table_string.v)))
        lines == NonEmptyLines(txt)
        header_idx == EvalHeaderIdx(lines)
    IN  IF header_idx = 0 \/ header_idx + 2 > Len(lines)
        THEN ParseError(filename, "No valid markdown table found.")
        ELSE MappedRow(lines[header_idx], lines[header_idx + 2], filename)

-----------------------------------------------------------------------------
(* app.parse_markdown_table *)

\* re.fullmatch(r"[|\s:-]+", sep)
IsSeparator(sep) ==
    sep # <<>> /\ \A i \in 1..Len(sep) : sep[i] \in {Bar, ":", "-"} \cup WhiteSpace

\* app.find_first_markdown_table_block: <<start, end>> (1-based, end exclusive),
\* <<0, 0>> for (None, None)
BlockStartsAt(lines, i) ==
    Contains(Strip(lines[i]), <<Bar>>) /\ IsSeparator(Strip(lines[i + 1]))

RECURSIVE BlockEnd(_, _)
BlockEnd(lines, j) ==
    IF j <= Len(lines) /\ Contains(lines[j], <<Bar>>) THEN BlockEnd(lines, j + 1) ELSE j

find_first_markdown_table_block(lines) ==
    IF \E i \in 1..(Len(lines) - 2) : BlockStartsAt(lines, i)
    THEN LET i == CHOOSE i \in 1..(Len(lines) - 2) :
                     BlockStartsAt(lines, i) /\ \A j \in 1..(i - 1) : ~BlockStartsAt(lines, j)
         IN  <<i, BlockEnd(lines, i + 2)>>
    ELSE <<0, 0>>

AppParse(table_string, filename) ==
    IF table_string.k # "str" THEN ParseError(filename, "No table string provided.")
    ELSE IF Strip(table_string.v) = <<>> THEN ParseError(filename, "Empty string.")
    ELSE
    LET txt == strip_code_fences(
                   StripTrailingFence(StripLeadingFence(Strip(table_string.v))))
        lines == NonEmptyLines(txt)
        block == find_first_markdown_table_block(lines)
        start == block[1]
        end == block[2]
    IN  IF start = 0
        THEN IF Len(lines) >= 3 /\ Contains(lines[1], <<Bar>>) /\ Contains(lines[3], <<Bar>>)
             THEN MappedRow(lines[1], lines[3], filename)
             ELSE ParseError(filename, "No markdown table found.")
        ELSE MappedRow(lines[start],
                       IF start + 2 < end THEN lines[start + 2] ELSE <<>>, filename)

-----------------------------------------------------------------------------
(* Inputs of the parser *)

NoResult == [x \in {"none"} |-> <<>>]
NoTable == [kind |-> "none", headers |-> <<>>, cells |-> <<>>]

\* no call of call_gemini_api under way
CallIdle ==
    /\ api = "app"
    /\ mime_json = FALSE
    /\ attempt = 0
    /\ requests = <<>>
    /\ backoff = 0
    /\ slept = <<>>
    /\ call_result = None
    /\ extracted = None

\* a GoogleSheetsAgent as __init__ leaves it, and no call made
NoRequest == [sheet_id_or_url |-> <<>>, worksheet_name |-> None, use_cache |-> TRUE, was_cached |-> FALSE, fetched |-> None, returned |-> None]

SheetsIdle ==
    /\ client = FALSE
    /\ current_sheet_data = None
    /\ current_sheet_name = None
    /\ data_cache = <<>>
    /\ request = NoRequest
    /\ fetches = 0

\* main at rest: no file, nothing evaluated
MainIdle ==
    /\ cv_files = <<>>
    /\ cv_index = 0
    /\ final_table_output = None
    /\ parse_called = FALSE
    /\ fallback_called = FALSE
    /\ parsed_from_llm = FALSE
    /\ parsed_data = NoResult
    /\ evaluated_results = <<>>

ParseIdle ==
    /\ p_text = None
    /\ p_filename = <<>>
    /\ tab = NoTable
    /\ wrap = "none"
    /\ p_eval = NoResult
    /\ p_app = NoResult
    /\ prev_p_eval = NoResult
    /\ prev_p_app = NoResult

Filenames == {<<"a",".","p","d","f">>, <<"b">>}

\* "| " + " | ".join(cells) + " |"
RenderRow(cells) == <<Bar, " ">> \o Join(cells, <<" ", Bar, " ">>) \o <<" ", Bar>>

\* the separator row of n columns
RenderSeparator(n) == <<Bar>> \o Join([i \in 1..n |-> <<"-","-","-">>], <<Bar>>) \o <<Bar>>

\* header row, separator row, data row
RenderTable(headers, cells) ==
    RenderRow(headers) \o <<NL>> \o RenderSeparator(Len(headers)) \o <<NL>> \o RenderRow(cells)

\* the seven canonical headers, rotated by r and, with flip, reversed
HeaderOrder(r, flip) ==
    [i \in 1..7 |->
        CanonicalKeys[(((IF flip THEN 8 - i ELSE i) - 1 + r) % 7) + 1].first]

HeaderOrders == {HeaderOrder(r, flip) : r \in 0..6, flip \in BOOLEAN}

\* data rows of seven cells: all filled, filled with inner and outer spaces,
\* and filled but for one cell that is empty
CellText(i) == <<"v", CHOOSE d \in Digits : d = <<"1","2","3","4","5","6","7">>[i]>>
RowFilled == [i \in 1..7 |-> CellText(i)]
RowSpaced == [i \in 1..7 |-> <<" ">> \o CellText(i) \o <<" ", "x", " ", " ">>]
RowWithEmpty(e) == [i \in 1..7 |-> IF i = e THEN <<>> ELSE CellText(i)]
SevenCellRows == {RowFilled, RowSpaced} \cup {RowWithEmpty(e) : e \in 1..7}

\* tables with the seven canonical headers in some order and seven data cells
WellFormedTables ==
    {[kind |-> "wellformed", headers |-> h, cells |-> c] :
        h \in HeaderOrders, c \in SevenCellRows}

\* other header rows: some canonical headers only, marked-up and lower-case
\* spellings, the spelling without a space, a header that is not canonical
OtherHeaders ==
    { <<K_Score, K_Fit>>,
      <<<<"*","*","S","c","o","r","e","*","*">>, K_fit, K_Matched \o K_Skills>>,
      <<<<"N","o","t","e","s">>, K_Rationale, K_Score>>,
      <<K_Fit, K_Rationale>> }

\* data rows with as many cells as the header, fewer, and more
OtherRows == { <<>>, <<<<"8">>>>, <<<<"8">>, <<"H","i","g","h">>>>, <<<<"8">>, <<"H","i","g","h">>, <<"o","k">>, <<"p","y">>>> }

OtherTables ==
    {[kind |-> "table", headers |-> h, cells |-> c] : h \in OtherHeaders, c \in OtherRows}

\* texts of up to MaxLines lines drawn from a vocabulary: table rows, a
\* separator, prose with and without a vertical bar, a blank line, fences
LineVocabulary ==
    { <<Bar," ","S","c","o","r","e"," ",Bar," ","F","i","t"," ",Bar>>, <<Bar,"-","-","-",Bar,"-","-","-",Bar>>, <<Bar," ","8"," ",Bar," ","H","i","g","h"," ",Bar>>, <<"R","e","s","u","l","t",":">>, <<>>, Fence }

LineTexts ==
    {[kind |-> "lines", headers |-> <<>>, cells |-> l] :
        l \in SeqsUpTo(LineVocabulary, MaxLines)}

\* the text of an input
TextOf(t) ==
    IF t.kind = "lines" THEN Join(t.cells, <<NL>>) ELSE RenderTable(t.headers, t.cells)

\* values that are not strings: None and a number
NonStrings == {None, [k |-> "num", v |-> <<>>]}

-----------------------------------------------------------------------------
(* Inputs of the scorer *)

Pyt == <<"P","y","t">>
Aws == <<"A","W","S">>
MbaDegree == <<"M","B","A">>
Metric == <<"+","9","%">>

\* entries of matched_skills_full: a skill name, or null
MatchedEntries == {Str(Pyt), None}

MatchedLists == {Absent, None} \cup {List(l) : l \in SeqsUpTo(MatchedEntries, MaxMatched)}

MissingLists == {Absent, None} \cup {List(Repeat(Str(Aws), n)) : n \in 0..MaxMissing}

\* critical_skills_list: empty, blank entries only, a skill that "Pyt" contains
\* once trimmed and lower-cased, a skill no matched entry contains, and both
CritBlank == <<" ">>
CritPy == <<" ","P","Y"," ">>
CritGo == <<"G","o">>
CritLists == {<<>>, <<CritBlank>>, <<<<>>, CritBlank>>, <<CritPy>>, <<CritGo>>, <<CritPy, CritGo>>}

\* the remaining fields of the extraction, and the CV length
Profile(q, a, s, y, e, c) ==
    [top_qualifications_full |-> q, quantifiable_achievements_full |-> a,
     relevant_experience_summary |-> s, years_of_experience |-> y,
     education_level |-> e, cv_len |-> c]

ProfileAbsent == Profile(Absent, Absent, Absent, AbsentNum, Absent, -1)
ProfileNull == Profile(None, None, None, NoneNum, None, 0)
ProfileNullEduAbsent == Profile(None, None, None, NoneNum, Absent, 0)
ProfileDefault == Profile(List(<<>>), List(<<>>), Str(<<>>), Num(0), Str(<<"U","n","k","n","o","w","n">>), 0)
ProfileBlank == Profile(List(<<>>), List(<<>>), Str(<<" ">>), Num(0), Str(<<>>), 301)
ProfileExample ==
    Profile(List(<<Str(MbaDegree)>>), List(<<>>), Absent, Num(5),
            Str(<<"M","a","s","t","e","r","'","s">>), 1500)
ProfileStrong ==
    Profile(List(Repeat(Str(MbaDegree), MaxQuals)), List(Repeat(Str(Metric), MaxQuals)),
            Str(<<"T","e","a","m"," ","L","e","a","d">>), Num(12), Str(<<"P","h","D">>), 2500)

Profiles == {ProfileAbsent, ProfileNull, ProfileNullEduAbsent, ProfileDefault,
             ProfileBlank, ProfileExample, ProfileStrong}

\* the extraction mapping
Extraction(m, k, p) ==
    [k |-> "dict", matched_skills_full |-> m, missing_skills_full |-> k,
     top_qualifications_full |-> p.top_qualifications_full,
     quantifiable_achievements_full |-> p.quantifiable_achievements_full,
     relevant_experience_summary |-> p.relevant_experience_summary,
     years_of_experience |-> p.years_of_experience,
     education_level |-> p.education_level]

Weights(m, e, q, s, c) ==
    [matched_skills_w |-> m, experience_relevance_w |-> e, qualifications_w |-> q,
     seniority_w |-> s, cv_clarity_w |-> c]

AllWeights(x) == Weights(Num(x), Num(x), Num(x), Num(x), Num(x))

\* the rubric: the defaults (no key given), weights in [0,100], and weights
\* below 0 and above 100, which nothing rejects
WeightSets ==
    {Weights(AbsentNum, AbsentNum, AbsentNum, AbsentNum, AbsentNum),
     AllWeights(0), AllWeights(100), AllWeights(150), AllWeights(-50),
     Weights(Num(100), Num(0), Num(0), Num(0), Num(0)),
     Weights(Num(0), Num(100), Num(0), Num(0), Num(0)),
     Weights(Num(50), Num(20), Num(15), Num(10), Num(5))}

WeightsInRange(w) ==
    \A f \in DOMAIN w : w[f].k = "num" => (w[f].v >= 0 /\ w[f].v <= 100)

-----------------------------------------------------------------------------
(* The scorer under check: score an input, then add one matched skill and *)
(* score again                                                            *)

InitScore ==
    /\ pc = "input"
    /\ \E m \in MatchedLists, k \in MissingLists, p \in Profiles :
          /\ ext = Extraction(m, k, p)
          /\ ext0 = Extraction(m, k, p)
          /\ cv_len = p.cv_len
    /\ weights \in WeightSets
    /\ crit \in CritLists
    /\ out_eval = NotRun
    /\ out_app = NotRun
    /\ prev_eval = NotRun
    /\ prev_app = NotRun
    /\ ParseIdle
    /\ MainIdle
    /\ CallIdle
    /\ SheetsIdle

ScoreCandidate ==
    /\ pc = "input"
    /\ pc' = "scored"
    /\ out_eval' = EvalScore(ext, cv_len, weights, crit)
    /\ out_app' = AppScore(ext, cv_len, weights, crit)
    /\ UNCHANGED <<ext, ext0, cv_len, weights, crit, prev_eval, prev_app>>
    /\ UNCHANGED parseVars
    /\ UNCHANGED mainVars
    /\ UNCHANGED callVars
    /\ UNCHANGED sheetsVars

AddMatched ==
    /\ pc = "scored"
    /\ Len(GetList(ext.matched_skills_full)) <= MaxMatched
    /\ \E e \in MatchedEntries :
          ext' = [ext EXCEPT !.matched_skills_full = List(Append(GetList(@), e))]
    /\ pc' = "rescored"
    /\ prev_eval' = out_eval
    /\ prev_app' = out_app
    /\ out_eval' = EvalScore(ext', cv_len, weights, crit)
    /\ out_app' = AppScore(ext', cv_len, weights, crit)
    /\ UNCHANGED <<ext0, cv_len, weights, crit>>
    /\ UNCHANGED parseVars
    /\ UNCHANGED mainVars
    /\ UNCHANGED callVars
    /\ UNCHANGED sheetsVars

\* a third invocation, with the input of the first one
ScoreAgain ==
    /\ pc = "rescored"
    /\ ext' = ext0
    /\ pc' = "repeated"
    /\ out_eval' = EvalScore(ext', cv_len, weights, crit)
    /\ out_app' = AppScore(ext', cv_len, weights, crit)
    /\ UNCHANGED <<ext0, cv_len, weights, crit, prev_eval, prev_app>>
    /\ UNCHANGED parseVars
    /\ UNCHANGED mainVars
    /\ UNCHANGED callVars
    /\ UNCHANGED sheetsVars

NextScore == ScoreCandidate \/ AddMatched \/ ScoreAgain

SpecScore == InitScore /\ [][NextScore]_vars

-----------------------------------------------------------------------------
(* Claims about the scorer *)

Scored == pc \in {"scored", "rescored"}

\* the matched skills the scorer reads
MatchedOf(fd) == GetList(fd.matched_skills_full)

\* some non-blank critical skill, trimmed and lower-cased, is a substring of no
\* lower-cased matched skill
CriticalAbsent ==
    \E i \in 1..Len(crit) :
        /\ Strip(crit[i]) # <<>>
        /\ \A j \in 1..Len(MatchedOf(ext)) :
              MatchedOf(ext)[j].k = "str"
                  => ~Contains(Lower(MatchedOf(ext)[j].v), Lower(Strip(crit[i])))

\* C1: in evaluator.compute_fallback_score, when a non-blank critical skill is
\* a substring of no matched skill, the returned score is at most 4.5
C1_CriticalCap ==
    (Scored /\ out_eval.k = "ok" /\ CriticalAbsent) => ScoreLE(out_eval.score, 4500)

\* C1 witness: a critical skill is absent, the cap decided the score (it is
\* exactly 4.5) and app.py's scorer, which has no cap, returned more than 4.5
C1_Witness ==
    /\ Scored /\ out_eval.k = "ok" /\ CriticalAbsent
    /\ out_eval.score.n = Thousandths(4500, out_eval.score.t)
    /\ out_app.k = "ok" /\ ~ScoreLE(out_app.score, 4500)

\* C2: every score returned by either compute_fallback_score lies in [0, 10],
\* also for weights below 0 or above 100 and any number of missing skills
C2_ScoreRange ==
    \A o \in {out_eval, out_app} :
        (Scored /\ o.k = "ok") => (ScoreGE(o.score, 0) /\ ScoreLE(o.score, 10000))

\* C2 witness: weights above 100 with missing skills, and the upper clamp
\* decided both scores
C2_Witness ==
    /\ Scored /\ ~WeightsInRange(weights)
    /\ Len(GetList(ext.missing_skills_full)) > 0
    /\ out_eval.k = "ok" /\ out_eval.score.n = Thousandths(10000, out_eval.score.t)
    /\ out_app.k = "ok" /\ out_app.score.n = Thousandths(10000, out_app.score.t)

\* C3: the fit of evaluator.compute_fallback_score is one of High, Medium, Low,
\* and is High iff score >= 8.0, Low iff score < 5.5, Medium iff in between
C3_FitPartition ==
    (Scored /\ out_eval.k = "ok") =>
        /\ out_eval.fit \in {"High", "Medium", "Low"}
        /\ (out_eval.fit = "High") <=> ScoreGE(out_eval.score, 8000)
        /\ (out_eval.fit = "Low") <=> ScoreLT(out_eval.score, 5500)
        /\ (out_eval.fit = "Medium") <=>
              (ScoreGE(out_eval.score, 5500) /\ ScoreLT(out_eval.score, 8000))

\* C3 witness: a Medium score in the band [7.5, 8.0) that app.py's thresholds
\* would call High
C3_Witness ==
    /\ Scored /\ out_eval.k = "ok" /\ out_eval.fit = "Medium"
    /\ ScoreGE(out_eval.score, 7500) /\ ScoreLT(out_eval.score, 8000)

\* C4: with every weight in [0,100] and all else fixed, one more matched skill
\* never decreases the score returned by compute_fallback_score
C4_MatchedMonotone ==
    (pc = "rescored" /\ WeightsInRange(weights)) =>
        /\ (prev_eval.k = "ok" /\ out_eval.k = "ok")
              => ScoreLeq(prev_eval.score, out_eval.score)
        /\ (prev_app.k = "ok" /\ out_app.k = "ok")
              => ScoreLeq(prev_app.score, out_app.score)

\* C4 witness: weights in range, a skill was added to a non-empty list and the
\* evaluator's score rose strictly
C4_Witness ==
    /\ pc = "rescored" /\ WeightsInRange(weights)
    /\ Len(MatchedOf(ext)) >= 2
    /\ prev_eval.k = "ok" /\ out_eval.k = "ok"
    /\ ~ScoreLeq(out_eval.score, prev_eval.score)

\* the extraction with every absent or null field replaced by its default
DefaultList(f) == IF f.k \in {"absent", "null"} THEN List(<<>>) ELSE f
Defaulted(fd) ==
    [fd EXCEPT
        !.matched_skills_full = DefaultList(@),
        !.missing_skills_full = DefaultList(@),
        !.top_qualifications_full = DefaultList(@),
        !.quantifiable_achievements_full = DefaultList(@),
        !.relevant_experience_summary = IF @.k \in {"absent", "null"} THEN Str(<<>>) ELSE @,
        !.years_of_experience = IF @.k \in {"absent", "null"} THEN Num(0) ELSE @,
        !.education_level =
            IF @.k \in {"absent", "null"} THEN Str(<<"U","n","k","n","o","w","n">>) ELSE @]

\* C9: evaluator.compute_fallback_score never raises on an extraction with
\* absent or null fields and null list entries, and an absent or null field
\* behaves as its default (empty list, empty text, 0, "Unknown")
C9_Total ==
    Scored =>
        /\ out_eval.k = "ok"
        /\ out_eval = EvalScore(Defaulted(ext), cv_len, weights, crit)

-----------------------------------------------------------------------------
(* The parser under check: parse an input, then wrap it in a fence or in   *)
(* prose and parse again                                                   *)

Prose == <<"H","e","r","e"," ","i","t"," ","i","s",":">>
ProseWithBar == <<"S","c","o","r","e"," ",Bar," ","F","i","t",":">>
LanguageTag == <<"m","a","r","k","d","o","w","n">>

\* the text wrapped the way w says
Wrapped(t, w) ==
    CASE w = "fence" -> Fence \o <<NL>> \o t \o <<NL>> \o Fence
      [] w = "tagged fence" -> Fence \o LanguageTag \o <<NL>> \o t \o <<NL>> \o Fence
      [] w = "prose before" -> Prose \o <<NL>> \o t
      [] w = "prose after" -> t \o <<NL>> \o Prose
      [] w = "prose around fence" ->
            Prose \o <<NL>> \o Fence \o <<NL>> \o t \o <<NL>> \o Fence \o <<NL>> \o Prose
      [] w = "prose with bar before" -> ProseWithBar \o <<NL>> \o t

Wraps == {"fence", "tagged fence", "prose before", "prose after", "prose around fence",
          "prose with bar before"}

InitParse ==
    /\ pc = "input"
    /\ \/ \E t \in WellFormedTables \cup OtherTables \cup LineTexts :
             tab = t /\ p_text = Str(TextOf(t))
       \/ tab = NoTable /\ p_text \in NonStrings
    /\ p_filename \in Filenames
    /\ wrap = "none"
    /\ p_eval = NoResult
    /\ p_app = NoResult
    /\ prev_p_eval = NoResult
    /\ prev_p_app = NoResult
    /\ ext = Extraction(Absent, Absent, ProfileAbsent)
    /\ ext0 = Extraction(Absent, Absent, ProfileAbsent)
    /\ cv_len = 0
    /\ weights = AllWeights(0)
    /\ crit = <<>>
    /\ out_eval = NotRun
    /\ out_app = NotRun
    /\ prev_eval = NotRun
    /\ prev_app = NotRun
    /\ MainIdle
    /\ CallIdle
    /\ SheetsIdle

ParseTable ==
    /\ pc = "input"
    /\ pc' = "parsed"
    /\ p_eval' = EvalParse(p_text, p_filename)
    /\ p_app' = AppParse(p_text, p_filename)
    /\ UNCHANGED <<p_text, p_filename, tab, wrap, prev_p_eval, prev_p_app>>
    /\ UNCHANGED scoreVars
    /\ UNCHANGED mainVars
    /\ UNCHANGED callVars
    /\ UNCHANGED sheetsVars

WrapText ==
    /\ pc = "parsed"
    /\ p_text.k = "str"
    /\ \E w \in Wraps :
          /\ wrap' = w
          /\ p_text' = Str(Wrapped(p_text.v, w))
    /\ pc' = "reparsed"
    /\ prev_p_eval' = p_eval
    /\ prev_p_app' = p_app
    /\ p_eval' = EvalParse(p_text', p_filename)
    /\ p_app' = AppParse(p_text', p_filename)
    /\ UNCHANGED <<p_filename, tab>>
    /\ UNCHANGED scoreVars
    /\ UNCHANGED mainVars
    /\ UNCHANGED callVars
    /\ UNCHANGED sheetsVars

NextParse == ParseTable \/ WrapText

SpecParse == InitParse /\ [][NextParse]_vars

-----------------------------------------------------------------------------
(* Claims about the parser *)

Parsed == pc \in {"parsed", "reparsed"}

HasError(r) == "error" \in DOMAIN r

\* the number of lines of a text that hold more than white space
LineCount(t) == Len(SelectSeq(Split(t, NL), NotBlank))

\* the inputs C5 names: not a string, empty or white space only, fewer than
\* three non-empty lines, no vertical bar
NoTableInput ==
    \/ p_text.k # "str"
    \/ Strip(p_text.v) = <<>>
    \/ LineCount(p_text.v) < 3
    \/ \A i \in 1..Len(p_text.v) : p_text.v[i] # Bar

\* C5: for a non-string, an empty or blank string, a string with fewer than
\* three non-empty lines or a string with no vertical bar, both
\* parse_markdown_table return a mapping with an error field
C5_GracefulFailure ==
    (Parsed /\ NoTableInput) => (HasError(p_eval) /\ HasError(p_app))

\* C5 witness: a text of two non-empty lines around a blank one, a header row
\* and a data row with vertical bars, and both parsers returned an error
C5_Witness ==
    /\ pc = "parsed" /\ p_text.k = "str"
    /\ LineCount(p_text.v) = 2 /\ Len(Split(p_text.v, NL)) = 3
    /\ EvalHeaderLine(Split(p_text.v, NL)[1])
    /\ Contains(Split(p_text.v, NL)[3], <<Bar>>)
    /\ HasError(p_eval) /\ HasError(p_app)

\* a canonical key none of whose two header spellings stands in the table
HeaderAbsent(c) ==
    \A i \in 1..Len(tab.headers) : NormKey(tab.headers[i]) \notin {c.first, c.second}

\* the two shapes of a result
FailureShape(r) == DOMAIN r = {"filename", "error"}
SuccessShape(r) == DOMAIN r = CanonicalNames \cup {"filename"}

\* C6: every result of parse_markdown_table has the keys {filename, error} or
\* the keys {filename} and the seven canonical ones; a canonical key whose
\* header is absent from the table (here: from the header row of a text that
\* is exactly a rendered table) holds the empty string; filename is the
\* filename argument
C6_ResultShape ==
    \A r \in {p_eval, p_app} :
        Parsed =>
            /\ FailureShape(r) \/ SuccessShape(r)
            /\ r["filename"] = p_filename
            /\ (SuccessShape(r) /\ tab.kind = "table" /\ pc = "parsed") =>
                  \A i \in 1..Len(CanonicalKeys) :
                      HeaderAbsent(CanonicalKeys[i]) => r[CanonicalKeys[i].key] = <<>>

\* C6 witness: a table with some canonical headers only parsed with success,
\* the Score cell was read and a key without header holds the empty string
C6_Witness ==
    /\ pc = "parsed" /\ tab.kind = "table"
    /\ SuccessShape(p_eval) /\ SuccessShape(p_app)
    /\ p_eval["Score"] # <<>> /\ p_app["Score"] # <<>>
    /\ \E i \in 1..Len(CanonicalKeys) :
          HeaderAbsent(CanonicalKeys[i]) /\ p_eval[CanonicalKeys[i].key] = <<>>

\* the canonical key a header names
KeyOf(h) == CanonicalKeys[CHOOSE i \in 1..Len(CanonicalKeys) : CanonicalKeys[i].first = h].key

\* C7: for a header row of the seven canonical headers in any order, a
\* separator row and a data row of seven cells, every canonical key gets the
\* trimmed content of the data cell in the column of its header
C7_RoundTrip ==
    (pc = "parsed" /\ tab.kind = "wellformed") =>
        \A r \in {p_eval, p_app} :
            /\ SuccessShape(r)
            /\ \A i \in 1..7 : r[KeyOf(tab.headers[i])] = Strip(tab.cells[i])

\* C8: when a text parses without error, the text wrapped in fences (with or
\* without a language tag) or with prose before and after it parses to the
\* same mapping
C8_WrapInvariant ==
    pc = "reparsed" =>
        /\ ~HasError(prev_p_eval) => p_eval = prev_p_eval
        /\ ~HasError(prev_p_app) => p_app = prev_p_app

-----------------------------------------------------------------------------
(* app.py main: the loop over the uploaded CVs.  The steps are cut at the  *)
(* calls that leave the process (reading the file, the three model calls). *)
(* What main only displays (progress bar, expander, the table text it      *)
(* renders for a fallback record) is not part of the state.                *)

MaxCVs == 2

SentinelPrefix == <<"A","P","I","/","N","e","t","w","o","r","k"," ","E","r","r","o","r">>

\* f"API/Network Error: {e}"
ErrorString == SentinelPrefix \o <<":"," ","x">>

\* the literal dict main puts in place of a failed extraction
EmptyExtraction ==
    [k |-> "dict", matched_skills_full |-> List(<<>>), missing_skills_full |-> List(<<>>),
     top_qualifications_full |-> List(<<>>), quantifiable_achievements_full |-> List(<<>>),
     relevant_experience_summary |-> Str(<<>>), years_of_experience |-> AbsentNum,
     education_level |-> Absent]

\* the guard on final_table_output that main tests before parsing, without its
\* test for the sentinel
ShouldParseAnyText(o) == o.k = "str" /\ o.v # <<>>

\* isinstance(final_table_output, str) and final_table_output
\* and not final_table_output.startswith("API/Network Error")
ShouldParse(o) == o.k = "str" /\ o.v # <<>> /\ ~StartsWith(o.v, SentinelPrefix)

\* parsed_try and "error" not in parsed_try
\* and (parsed_try.get("Score") or parsed_try.get("Fit"))
Usable(parsed_try) ==
    /\ "error" \notin DOMAIN parsed_try
    /\ parsed_try["Score"] # <<>> \/ parsed_try["Fit"] # <<>>

DigitChars == <<"0","1","2","3","4","5","6","7","8","9">>

\* str(n) for n >= 0
RECURSIVE IntStr(_)
IntStr(n) ==
    IF n < 10 THEN <<DigitChars[n + 1]>>
    ELSE IntStr(n \div 10) \o <<DigitChars[(n % 10) + 1]>>

\* str(int(fb_score)) if float(fb_score).is_integer() else str(round(fb_score, 1))
ScoreStr(score) ==
    IF score.n % Den(score.t) = 0 THEN IntStr(score.n \div Den(score.t))
    ELSE LET tenths == RoundHalfEven(score.n * 10, Den(score.t))
         IN  IntStr(tenths \div 10) \o <<".">> \o IntStr(tenths % 10)

\* sep.join(foundational_data.get(key, []) or []): raises on an entry that is no string
JoinRaises(f) == \E i \in 1..Len(GetList(f)) : GetList(f)[i].k # "str"
JoinField(f, sep) == Join([i \in 1..Len(GetList(f)) |-> GetList(f)[i].v], sep)

\* building parsed_data on the fallback path raises
FallbackRaises(fd, out) ==
    \/ out.k = "raise"
    \/ JoinRaises(fd.matched_skills_full)
    \/ JoinRaises(fd.missing_skills_full)
    \/ JoinRaises(fd.top_qualifications_full)
    \/ JoinRaises(fd.quantifiable_achievements_full)

\* parsed_data of the fallback path
FallbackRecord(fd, out, filename) ==
    [x \in CanonicalNames \cup {"filename"} |->
        CASE x = "filename" -> filename
          [] x = "Score" -> ScoreStr(out.score)
          [] x = "Fit" -> out.fit
          [] x = "Rationale" -> out.rationale
          [] x = "Matched Skills" -> JoinField(fd.matched_skills_full, <<",", " ">>)
          [] x = "Missing Skills" -> JoinField(fd.missing_skills_full, <<",", " ">>)
          [] x = "Top Qualifications" -> JoinField(fd.top_qualifications_full, <<",", " ">>)
          [] x = "Quantifiable Achievements" ->
                JoinField(fd.quantifiable_achievements_full, <<";", " ">>)]

\* the uploaded files: a name and the length of the text read from it (0: no text)
File(name, text_len) == [name |-> name, text_len |-> text_len]
Files == {File(<<"a",".","p","d","f">>, 1500), File(<<"b">>, 0)}

\* a candidate with two achievements and a summary naming a lead
ProfileLead ==
    Profile(List(<<>>), List(<<Str(Metric), Str(Metric)>>),
            Str(<<"T","e","a","m"," ","L","e","a","d">>), Num(0),
            Str(<<"U","n","k","n","o","w","n">>), 1500)

\* what call_gemini_api can return for the extraction: mappings, a mapping
\* with a null entry in a list, the sentinel, the raw text of a response that
\* is no JSON
ExtractionReturns ==
    { Extraction(List(<<Str(Pyt)>>), List(<<Str(Aws)>>), ProfileExample),
      Extraction(List(<<Str(Pyt)>>), List(<<Str(Aws)>>), ProfileLead),
      Extraction(List(<<None>>), None, ProfileNull),
      Str(ErrorString), Str(Prose) }

\* tables the evaluation can return: Score and Fit filled, Fit alone, neither
EvaluationTables ==
    { RenderTable(<<K_Score, K_Fit>>, << <<"8">>, <<"H","i","g","h">> >>),
      RenderTable(<<K_Fit, K_Rationale>>, << <<"H","i","g","h">> >>),
      RenderTable(<<K_Rationale, K_Missing \o <<" ">> \o K_Skills>>, << <<"o","k">> >>) }

\* what call_gemini_api can return for the evaluation: null or empty text, the
\* sentinel, the sentinel after a blank, prose, tables, a fenced table
EvaluationReturns ==
    { None, Str(<<>>), Str(ErrorString), Str(<<" ">> \o ErrorString), Str(Prose) }
    \cup {Str(t) : t \in EvaluationTables}
    \cup {Str(Wrapped(t, "tagged fence")) : t \in EvaluationTables}

InitMain ==
    /\ pc = "read"
    /\ cv_files \in SeqsUpTo(Files, MaxCVs) \ {<<>>}
    /\ cv_index = 1
    /\ final_table_output = None
    /\ parse_called = FALSE
    /\ fallback_called = FALSE
    /\ parsed_from_llm = FALSE
    /\ parsed_data = NoResult
    /\ evaluated_results = <<>>
    /\ ext = EmptyExtraction
    /\ ext0 = EmptyExtraction
    /\ cv_len = 0
    /\ weights = Weights(Num(50), Num(20), Num(15), Num(10), Num(5))
    /\ crit \in {<<>>, <<CritGo>>}
    /\ out_eval = NotRun
    /\ out_app = NotRun
    /\ prev_eval = NotRun
    /\ prev_app = NotRun
    /\ ParseIdle
    /\ CallIdle
    /\ SheetsIdle

\* the position of the loop after the candidate at cv_index
AfterCandidate == IF cv_index = Len(cv_files) THEN "finished" ELSE "read"

\* cv_text = read_uploaded_file(cv_file); if not cv_text: continue
SkipUnreadable ==
    /\ pc = "read"
    /\ cv_files[cv_index].text_len = 0
    /\ pc' = AfterCandidate
    /\ cv_index' = cv_index + 1
    /\ UNCHANGED <<cv_files, final_table_output, parse_called, fallback_called,
                   parsed_from_llm, parsed_data, evaluated_results>>
    /\ UNCHANGED <<scoreVars, parseVars>>
    /\ UNCHANGED callVars
    /\ UNCHANGED sheetsVars

\* cv_text = read_uploaded_file(cv_file), with text
ReadFile ==
    /\ pc = "read"
    /\ cv_files[cv_index].text_len > 0
    /\ cv_len' = cv_files[cv_index].text_len
    /\ pc' = "extract"
    /\ final_table_output' = None
    /\ parse_called' = FALSE
    /\ fallback_called' = FALSE
    /\ parsed_from_llm' = FALSE
    /\ parsed_data' = NoResult
    /\ out_app' = NotRun
    /\ p_app' = NoResult
    /\ UNCHANGED <<cv_files, cv_index, evaluated_results>>
    /\ UNCHANGED <<ext, ext0, weights, crit, out_eval, prev_eval, prev_app>>
    /\ UNCHANGED <<p_text, p_filename, tab, wrap, p_eval, prev_p_eval, prev_p_app>>
    /\ UNCHANGED callVars
    /\ UNCHANGED sheetsVars

\* foundational_data = call_gemini_api(...), and the empty extraction in place
\* of the sentinel
Extract ==
    /\ pc = "extract"
    /\ \E r \in ExtractionReturns :
          ext' = IF r.k = "str" /\ StartsWith(r.v, SentinelPrefix)
                 THEN EmptyExtraction ELSE r
    /\ pc' = "evaluate"
    /\ UNCHANGED mainVars
    /\ UNCHANGED <<ext0, cv_len, weights, crit, out_eval, out_app, prev_eval, prev_app>>
    /\ UNCHANGED parseVars
    /\ UNCHANGED callVars
    /\ UNCHANGED sheetsVars

\* final_table_output = call_gemini_api(...), the parse of it, and the
\* fallback when the table is not usable; an exception leaves for the handler
Evaluate ==
    /\ pc = "evaluate"
    /\ \E o \in EvaluationReturns : final_table_output' = o
    /\ parse_called' = ShouldParse(final_table_output')
    /\ p_app' = IF parse_called'
                THEN AppParse(final_table_output', cv_files[cv_index].name)
                ELSE NoResult
    /\ parsed_from_llm' = (parse_called' /\ Usable(p_app'))
    /\ fallback_called' = ~parsed_from_llm'
    /\ out_app' = IF fallback_called' THEN AppScore(ext, cv_len, weights, crit) ELSE NotRun
    /\ IF parsed_from_llm'
       THEN parsed_data' = p_app' /\ pc' = "analyse"
       ELSE IF FallbackRaises(ext, out_app')
       THEN parsed_data' = NoResult /\ pc' = "failed"
       ELSE /\ parsed_data' = FallbackRecord(ext, out_app', cv_files[cv_index].name)
            /\ pc' = "analyse"
    /\ UNCHANGED <<cv_files, cv_index, evaluated_results>>
    /\ UNCHANGED <<ext, ext0, cv_len, weights, crit, out_eval, prev_eval, prev_app>>
    /\ UNCHANGED <<p_text, p_filename, tab, wrap, p_eval, prev_p_eval, prev_p_app>>
    /\ UNCHANGED callVars
    /\ UNCHANGED sheetsVars

\* analysis_result = call_gemini_api(...) and evaluated_results.append(...)
Analyse ==
    /\ pc = "analyse"
    /\ evaluated_results' = Append(evaluated_results, parsed_data)
    /\ pc' = AfterCandidate
    /\ cv_index' = cv_index + 1
    /\ UNCHANGED <<cv_files, final_table_output, parse_called, fallback_called,
                   parsed_from_llm, parsed_data>>
    /\ UNCHANGED <<scoreVars, parseVars>>
    /\ UNCHANGED callVars
    /\ UNCHANGED sheetsVars

\* except Exception as e: st.error(...); continue
HandleException ==
    /\ pc = "failed"
    /\ pc' = AfterCandidate
    /\ cv_index' = cv_index + 1
    /\ UNCHANGED <<cv_files, final_table_output, parse_called, fallback_called,
                   parsed_from_llm, parsed_data, evaluated_results>>
    /\ UNCHANGED <<scoreVars, parseVars>>
    /\ UNCHANGED callVars
    /\ UNCHANGED sheetsVars

NextMain == SkipUnreadable \/ ReadFile \/ Extract \/ Evaluate \/ Analyse \/ HandleException

SpecMain == InitMain /\ [][NextMain]_vars

-----------------------------------------------------------------------------
(* Claims about main *)

\* the evaluation call has returned for the candidate at cv_index
Evaluated == pc \in {"analyse", "failed"}

\* the evaluation output is empty or falsy, or starts with the sentinel
NoTableOutput ==
    \/ final_table_output.k # "str"
    \/ final_table_output.v = <<>>
    \/ StartsWith(final_table_output.v, SentinelPrefix)

\* the parse result has an error key, or has Score and Fit both empty
ParsedUnusable ==
    \/ "error" \in DOMAIN p_app
    \/ p_app["Score"] = <<>> /\ p_app["Fit"] = <<>>

\* C10: once the evaluation call has returned for a candidate whose CV text
\* was read: an empty or falsy output or one that starts with the sentinel is
\* not parsed and goes to compute_fallback_score; a parsed output whose result
\* has an error key or has Score and Fit both empty goes to
\* compute_fallback_score; in every other case the record is the parsed table
\* and compute_fallback_score is not called
C10_Dispatch ==
    Evaluated =>
        /\ NoTableOutput => (~parse_called /\ fallback_called)
        /\ (~NoTableOutput /\ parse_called /\ ParsedUnusable) => fallback_called
        /\ (~NoTableOutput /\ ~(parse_called /\ ParsedUnusable)) =>
              /\ parse_called
              /\ ~fallback_called
              /\ pc = "analyse"
              /\ parsed_data = p_app

\* C10 witness: a table without error whose Score and Fit are both empty was
\* parsed and the record came from compute_fallback_score
C10_Witness ==
    /\ pc = "analyse"
    /\ parse_called
    /\ "error" \notin DOMAIN p_app
    /\ p_app["Score"] = <<>> /\ p_app["Fit"] = <<>>
    /\ fallback_called
    /\ parsed_data["Score"] # <<>>

\* the candidates before cv_index whose CV text was read
ReadCandidates == {i \in 1..(cv_index - 1) : cv_files[i].text_len > 0}

\* the loop stands between two candidates, or is over
BetweenCandidates == pc \in {"read", "finished"}

\* C11: every candidate whose CV text was read and whose extraction and
\* evaluation calls returned has exactly one record in evaluated_results, and
\* every record has exactly the keys filename and the seven canonical ones
C11_OneRecordEach ==
    /\ BetweenCandidates => Len(evaluated_results) = Cardinality(ReadCandidates)
    /\ \A i \in 1..Len(evaluated_results) :
          DOMAIN evaluated_results[i] = CanonicalNames \cup {"filename"}

\* C12: in app.py's compute_fallback_score a missing critical skill is a hard
\* ceiling: when a non-blank critical skill is a substring of no matched
\* skill, the returned score is at most 4.5
C12_AppCriticalCap ==
    (Scored /\ out_app.k = "ok" /\ CriticalAbsent) => ScoreLE(out_app.score, 4500)

\* C13: with every weight in [0,100] the score returned by
\* evaluator.compute_fallback_score is a 1-10 score: 1.0 <= score <= 10.0
C13_OneToTen ==
    (Scored /\ out_eval.k = "ok" /\ WeightsInRange(weights)) =>
        (ScoreGE(out_eval.score, 1000) /\ ScoreLE(out_eval.score, 10000))

\* the sentences of the evaluator's rationale, by their first word
RationaleOrder == <<"Matched", "years", "Education", "qualifications", "achievements",
                    "Penalty", "Critical">>
RankOf(tag) == CHOOSE i \in 1..Len(RationaleOrder) : RationaleOrder[i] = tag
HasSentence(r, tag) == \E i \in 1..Len(r) : r[i].s = tag
SentenceOf(r, tag) == r[CHOOSE i \in 1..Len(r) : r[i].s = tag]

\* is the critical skill c, trimmed and lower-cased, in no matched skill
InNoMatched(c) ==
    \A j \in 1..Len(MatchedOf(ext)) :
        MatchedOf(ext)[j].k = "str" => ~Contains(Lower(MatchedOf(ext)[j].v), c)

\* the non-blank critical skills, trimmed and lower-cased, that no matched skill contains
MissingOnes ==
    SelectSeq([i \in 1..Len(SelectSeq(crit, NotBlank)) |->
                  Lower(Strip(SelectSeq(crit, NotBlank)[i]))],
              InNoMatched)

\* C14: the rationale of evaluator.compute_fallback_score holds its sentences
\* in the order skills, years, education, qualifications, achievements,
\* penalty, critical; the skills sentence is always there, the years sentence
\* iff years > 0, the qualifications and achievements sentences iff their
\* lists are non-empty, the penalty sentence iff a skill is missing, the
\* critical sentence iff a critical skill is missing, listing exactly those
C14_RationaleOrder ==
    (Scored /\ out_eval.k = "ok") =>
        LET r == out_eval.rationale IN
        /\ \A i, j \in 1..Len(r) : i < j => RankOf(r[i].s) < RankOf(r[j].s)
        /\ HasSentence(r, "Matched")
        /\ SentenceOf(r, "Matched").a = Len(MatchedOf(ext))
        /\ SentenceOf(r, "Matched").b =
              Len(MatchedOf(ext)) + Len(GetList(ext.missing_skills_full))
        /\ HasSentence(r, "years") <=> GetYears(ext.years_of_experience) > 0
        /\ HasSentence(r, "qualifications") <=> GetList(ext.top_qualifications_full) # <<>>
        /\ HasSentence(r, "achievements")
              <=> GetList(ext.quantifiable_achievements_full) # <<>>
        /\ HasSentence(r, "Penalty") <=> Len(GetList(ext.missing_skills_full)) > 0
        /\ HasSentence(r, "Critical") <=> MissingOnes # <<>>
        /\ HasSentence(r, "Critical") =>
              SentenceOf(r, "Critical").txt = Join(MissingOnes, <<",", " ">>)

\* C14 witness: a rationale with all seven sentences, the last one naming
\* one missing critical skill of two asked for
C14_Witness ==
    /\ Scored /\ out_eval.k = "ok"
    /\ Len(out_eval.rationale) = 7
    /\ Len(SelectSeq(crit, NotBlank)) = 2
    /\ Len(MissingOnes) = 1

\* the education level is not known: absent, the empty string, or "Unknown"
\* in any letter case
EducationUnknown ==
    \/ ext.education_level.k = "absent"
    \/ /\ ext.education_level.k = "str"
       /\ Lower(ext.education_level.v) \in {<<>>, Unknown}

\* C15: the rationale of evaluator.compute_fallback_score has no Education
\* sentence when education_level is absent, empty or "Unknown" in any case
C15_EducationKnown ==
    (Scored /\ out_eval.k = "ok" /\ EducationUnknown)
        => ~HasSentence(out_eval.rationale, "Education")

\* the example scenario of the specification: 2 matched skills, 1 missing
\* skill, 1 qualification, no achievement, 5 years, "Master's", no experience
\* summary, weights 50/20/15/10/5, no critical skill, a CV of 1500 characters
ExampleScenario ==
    /\ pc = "scored"
    /\ ext = Extraction(List(<<Str(Pyt), Str(Pyt)>>), List(<<Str(Aws)>>), ProfileExample)
    /\ cv_len = 1500
    /\ weights = Weights(Num(50), Num(20), Num(15), Num(10), Num(5))
    /\ crit = <<>>

\* the matched ratio is 2/3 and no critical cap applies
ExampleRatioNoCap ==
    /\ out_eval.k = "ok"
    /\ SentenceOf(out_eval.rationale, "Matched").a = 2
    /\ SentenceOf(out_eval.rationale, "Matched").b = 3
    /\ SentenceOf(out_eval.rationale, "Matched").c = 67
    /\ ~HasSentence(out_eval.rationale, "Critical")

\* C16 as stated: in the example scenario evaluator.compute_fallback_score
\* uses the matched ratio 2/3, applies no critical cap and returns fit Medium
C16_ExampleMedium ==
    ExampleScenario => (ExampleRatioNoCap /\ out_eval.fit = "Medium")

\* C16 amended: in the example scenario evaluator.compute_fallback_score uses
\* the matched ratio 2/3, applies no critical cap, and returns the score 5.022
\* (1 + 9 * 0.491333... - 0.4) with fit Low, below the Medium threshold 5.5
C16_ExampleLow ==
    ExampleScenario =>
        /\ ExampleRatioNoCap
        /\ out_eval.score.n = Thousandths(5022, out_eval.score.t)
        /\ out_eval.fit = "Low"

\* C16 witness: the example scenario was scored, its rationale has the four
\* sentences the specification names and the penalty sentence
C16_Witness ==
    /\ ExampleScenario
    /\ out_eval.k = "ok"
    /\ Len(out_eval.rationale) = 5
    /\ SentenceOf(out_eval.rationale, "years").a = 5
    /\ SentenceOf(out_eval.rationale, "Education").txt = Lower(ext.education_level.v)
    /\ SentenceOf(out_eval.rationale, "qualifications").a = 1
    /\ HasSentence(out_eval.rationale, "Penalty")

-----------------------------------------------------------------------------
(* call_gemini_api (app.py and AIService) and                              *)
(* AIService.extract_candidate_data.  One step is one request to the       *)
(* model API; the request either yields a response with text or raises.    *)
(* The return after the loop ("API call failed after max retries.") is not *)
(* a step: the last iteration of the loop always returns.                  *)

MAX_RETRIES == 4
APP_MAX_RETRIES == 4
INITIAL_BACKOFF == 1

\* range(MAX_RETRIES) of the one or the other call_gemini_api
MaxRetries(a) == IF a = "app" THEN APP_MAX_RETRIES ELSE MAX_RETRIES

\* the test of the except branch, taken as if no attempt were the last
RetryAlways(a, i) == TRUE

\* if attempt < MAX_RETRIES - 1
RetryAllowed(a, i) == i < MaxRetries(a) - 1

\* a sleep that never grows
SleepTimeFixed(a, i, b) == INITIAL_BACKOFF

\* time.sleep(2 ** i) in app.py, time.sleep(backoff) in AIService
SleepTime(a, i, b) == IF a = "app" THEN 2 ^ i ELSE b

\* f"API/Network Error: {e}"
ErrorOf(e) == SentinelPrefix \o <<":", " ">> \o e

\* the exceptions a request raises, by their message
Errors == {<<"x">>, <<"t","i","m","e","o","u","t">>}

\* the texts of the responses: JSON of an object, of a list, of null, of a
\* string, text that is no JSON, and no text
ResponseTexts ==
    { <<"{","}">>, <<"[","]">>, <<"n","u","l","l">>, <<"\"","x","\"">>, Prose, <<>> }

\* str(resp), which AIService takes when the response has no text
ResponseRepr == <<"r","e","s","p">>

Invalid == [k |-> "invalid", v |-> <<>>]

\* json.loads(content_part); Invalid when it raises
JsonLoads(content) ==
    CASE content = <<"{","}">> -> Extraction(Absent, Absent, ProfileAbsent)
      [] content = <<"[","]">> -> List(<<>>)
      [] content = <<"n","u","l","l">> -> None
      [] content = <<"\"","x","\"">> -> Str(<<"x">>)
      [] OTHER -> Invalid

\* content_part: parts[0]["text"] in app.py; resp.text, or str(resp) when
\* that is empty, in AIService
ContentPart(a, text) == IF a = "service" /\ text = <<>> THEN ResponseRepr ELSE text

\* what call_gemini_api returns for a response
ReturnOf(a, json, text) ==
    IF json /\ JsonLoads(ContentPart(a, text)) # Invalid
    THEN JsonLoads(ContentPart(a, text))
    ELSE Str(ContentPart(a, text))

\* the dict AIService.extract_candidate_data returns in place of a string
ServiceEmptyExtraction ==
    [k |-> "dict", matched_skills_full |-> List(<<>>), missing_skills_full |-> List(<<>>),
     top_qualifications_full |-> List(<<>>), quantifiable_achievements_full |-> List(<<>>),
     relevant_experience_summary |-> Str(<<>>), years_of_experience |-> Num(0),
     education_level |-> Str(<<"U","n","k","n","o","w","n">>)]

\* the test of app.py main, which replaces the sentinel only
ReplaceSentinelOnly(result) ==
    IF result.k = "str" /\ StartsWith(result.v, SentinelPrefix)
    THEN ServiceEmptyExtraction ELSE result

\* if isinstance(result, str): return {...}; return result
ExtractResult(result) == IF result.k = "str" THEN ServiceEmptyExtraction ELSE result

InitCall ==
    /\ pc = "calling"
    /\ api \in {"app", "service"}
    /\ mime_json \in BOOLEAN
    /\ attempt = 0
    /\ requests = <<>>
    /\ backoff = IF api = "service" THEN INITIAL_BACKOFF ELSE 0
    /\ slept = <<>>
    /\ call_result = None
    /\ extracted = None
    /\ ext = EmptyExtraction
    /\ ext0 = EmptyExtraction
    /\ cv_len = 0
    /\ weights = AllWeights(0)
    /\ crit = <<>>
    /\ out_eval = NotRun
    /\ out_app = NotRun
    /\ prev_eval = NotRun
    /\ prev_app = NotRun
    /\ ParseIdle
    /\ MainIdle
    /\ SheetsIdle

\* a request that yields a response: return the parsed JSON or the text
AttemptSucceeds ==
    /\ pc = "calling"
    /\ attempt < MaxRetries(api)
    /\ \E text \in ResponseTexts : call_result' = ReturnOf(api, mime_json, text)
    /\ requests' = Append(requests, "ok")
    /\ pc' = "returned"
    /\ UNCHANGED <<api, mime_json, attempt, backoff, slept, extracted>>
    /\ UNCHANGED <<scoreVars, parseVars, mainVars>>
    /\ UNCHANGED sheetsVars

\* a request that raises, not the last one: sleep and go round again
AttemptFailsRetry ==
    /\ pc = "calling"
    /\ attempt < MaxRetries(api)
    /\ RetryAllowed(api, attempt)
    /\ requests' = Append(requests, "failed")
    /\ slept' = Append(slept, SleepTime(api, attempt, backoff))
    /\ backoff' = IF api = "service" THEN backoff * 2 ELSE backoff
    /\ attempt' = attempt + 1
    /\ UNCHANGED <<pc, api, mime_json, call_result, extracted>>
    /\ UNCHANGED <<scoreVars, parseVars, mainVars>>
    /\ UNCHANGED sheetsVars

\* the last request raises: return the error string
AttemptFailsLast ==
    /\ pc = "calling"
    /\ attempt < MaxRetries(api)
    /\ ~RetryAllowed(api, attempt)
    /\ requests' = Append(requests, "failed")
    /\ \E e \in Errors : call_result' = Str(ErrorOf(e))
    /\ pc' = "returned"
    /\ UNCHANGED <<api, mime_json, attempt, backoff, slept, extracted>>
    /\ UNCHANGED <<scoreVars, parseVars, mainVars>>
    /\ UNCHANGED sheetsVars

\* AIService.extract_candidate_data, after its call_gemini_api returned
ExtractCandidateData ==
    /\ pc = "returned"
    /\ api = "service"
    /\ mime_json
    /\ extracted' = ExtractResult(call_result)
    /\ pc' = "extracted"
    /\ UNCHANGED <<api, mime_json, attempt, requests, backoff, slept, call_result>>
    /\ UNCHANGED <<scoreVars, parseVars, mainVars>>
    /\ UNCHANGED sheetsVars

NextCall == AttemptSucceeds \/ AttemptFailsRetry \/ AttemptFailsLast \/ ExtractCandidateData

SpecCall == InitCall /\ [][NextCall]_vars

-----------------------------------------------------------------------------
(* Claims about the calls *)

\* C17: when AIService.call_gemini_api returns a string (the error string or
\* text that is no JSON), AIService.extract_candidate_data returns the
\* all-empty extraction: four empty lists, an empty summary, 0 years and the
\* education level "Unknown"; it never returns a string
C17_EmptyOnString ==
    pc = "extracted" =>
        /\ extracted.k # "str"
        /\ call_result.k = "str" =>
              /\ extracted.k = "dict"
              /\ extracted.matched_skills_full = List(<<>>)
              /\ extracted.missing_skills_full = List(<<>>)
              /\ extracted.top_qualifications_full = List(<<>>)
              /\ extracted.quantifiable_achievements_full = List(<<>>)
              /\ extracted.relevant_experience_summary = Str(<<>>)
              /\ extracted.years_of_experience = Num(0)
              /\ extracted.education_level = Str(<<"U","n","k","n","o","w","n">>)

\* C17 witness: the first request succeeded with text that is no JSON, the
\* call returned that text and extract_candidate_data the empty extraction
C17_Witness ==
    /\ pc = "extracted"
    /\ requests = <<"ok">>
    /\ call_result = Str(Prose)
    /\ extracted = ServiceEmptyExtraction

\* C18: call_gemini_api sends at most 4 requests; every request before the
\* last one sent has failed, so it returns at the first request that succeeds;
\* when it returns after a failed request, 4 requests have failed and the
\* result is a string that starts with "API/Network Error:"
C18_BoundedRetries ==
    /\ Len(requests) <= 4
    /\ \A i \in 1..(Len(requests) - 1) : requests[i] = "failed"
    /\ pc = "calling" => (Len(requests) < 4 /\ \A i \in 1..Len(requests) : requests[i] = "failed")
    /\ pc \in {"returned", "extracted"} =>
          \/ requests[Len(requests)] = "ok"
          \/ /\ Len(requests) = 4
             /\ call_result.k = "str"
             /\ StartsWith(call_result.v, SentinelPrefix \o <<":">>)

\* C18 witness: three requests failed, the fourth succeeded and the call
\* returned its parsed JSON
C18_Witness ==
    /\ pc = "returned"
    /\ requests = <<"failed", "failed", "failed", "ok">>
    /\ call_result.k = "dict"

C20_EmptyCellKeepsPlace ==
    (pc = "parsed" /\ tab.kind = "wellformed") =>
        \A r \in {p_eval, p_app} :
            \A e \in 1..6 :
                Strip(tab.cells[e]) = <<>> =>
                    /\ SuccessShape(r)
                    /\ \A i \in (e + 1)..7 :
                          Strip(tab.cells[i]) # <<>>
                              => r[KeyOf(tab.headers[i])] = Strip(tab.cells[i])

\* the lines evaluator.parse_markdown_table scans
ScannedLines(t) == NonEmptyLines(StripTrailingFence(StripLeadingFence(Strip(t))))

\* the first line with a vertical bar whose next line is a separator, 0 when
\* there is none
SeparatedHeader(lines, i) ==
    i < Len(lines) /\ Contains(lines[i], <<Bar>>) /\ IsSeparator(Strip(lines[i + 1]))

SeparatedHeaderIdx(lines) ==
    IF \E i \in 1..Len(lines) : SeparatedHeader(lines, i)
    THEN CHOOSE i \in 1..Len(lines) :
            SeparatedHeader(lines, i) /\ \A j \in 1..(i - 1) : ~SeparatedHeader(lines, j)
    ELSE 0

\* C21: evaluator.parse_markdown_table takes as header the first line with a
\* vertical bar that is followed by a separator line and as data row the line
\* after that separator; with no such line no line is used as header and the
\* result is an error
C21_HeaderBeforeSeparator ==
    (pc = "parsed" /\ p_text.k = "str" /\ Strip(p_text.v) # <<>>) =>
        LET lines == ScannedLines(p_text.v)
            h == SeparatedHeaderIdx(lines)
        IN  IF h = 0 THEN HasError(p_eval)
            ELSE h + 2 <= Len(lines)
                    => p_eval = MappedRow(lines[h], lines[h + 2], p_filename)

\* the score does not depend on the matched ratio: no matched skill, or a
\* weight of 0 on the matched skills
RatioSilent ==
    \/ Len(MatchedOf(ext)) = 0
    \/ weights.matched_skills_w = Num(0)

\* a score that neither the clamp at 0 nor the clamp at 10 decided
Unclamped(s) == s.n > 0 /\ s.n < Thousandths(10000, s.t)

\* the extraction with the missing skills replaced by l
WithMissing(l) == [ext EXCEPT !.missing_skills_full = List(l)]

\* s1 - s2 = x / 1000 for scores over different denominators
ScoreDiffIs(s1, s2, x) == s1.n * s2.t - s2.n * s1.t = x * 100 * s1.t * s2.t

\* C22: evaluator.compute_fallback_score subtracts min(2.5, 0.4 * missing_count)
\* for the missing skills: where the matched ratio plays no part and no clamp
\* or cap decides, the score lies exactly that much below the score of the
\* same candidate without missing skills (0 for none, 0.4 per skill, at most
\* 2.5), and from 7 missing skills on one more missing skill changes nothing
C22_MissPenalty ==
    (Scored /\ out_eval.k = "ok" /\ ~CriticalAbsent /\ RatioSilent) =>
        LET missing == GetList(ext.missing_skills_full)
            k == Len(missing)
            none == EvalScore(WithMissing(<<>>), cv_len, weights, crit)
            more == EvalScore(WithMissing(Append(missing, Str(Aws))), cv_len, weights, crit)
        IN  /\ EvalMissPenalty(0) = 0
            /\ EvalMissPenalty(k) <= 2500
            /\ (Unclamped(out_eval.score) /\ Unclamped(none.score)) =>
                  /\ ScoreDiffIs(none.score, out_eval.score, EvalMissPenalty(k))
                  /\ ScoreDiffIs(none.score, out_eval.score, Min(2500, 400 * k))
            /\ k >= 7 => ScoreDiffIs(more.score, out_eval.score, 0)

\* C22 witness: seven missing skills, no clamp or cap decided, and the score
\* is 2.5 (not 2.8) below the score without missing skills
C22_Witness ==
    /\ Scored /\ out_eval.k = "ok" /\ ~CriticalAbsent /\ RatioSilent
    /\ Len(GetList(ext.missing_skills_full)) = 7
    /\ Unclamped(out_eval.score)
    /\ LET none == EvalScore(WithMissing(<<>>), cv_len, weights, crit)
       IN  Unclamped(none.score) /\ ScoreDiffIs(none.score, out_eval.score, 2500)

RECURSIVE SumOf(_)
SumOf(q) == IF q = <<>> THEN 0 ELSE Head(q) + SumOf(Tail(q))

\* C23: call_gemini_api sleeps only after a failed request that is not the
\* last one: one sleep per request while the loop runs, one less than the
\* requests once it has returned (none after a success or the 4th failure);
\* the sleeps last INITIAL_BACKOFF, 2x, 4x seconds, so at most 3 sleeps and 7
\* seconds; no request follows a success
C23_BackoffSchedule ==
    /\ \A i \in 1..Len(slept) : slept[i] = INITIAL_BACKOFF * 2 ^ (i - 1)
    /\ Len(slept) <= 3
    /\ SumOf(slept) <= 7
    /\ pc = "calling" => Len(slept) = Len(requests)
    /\ pc \in {"returned", "extracted"} => Len(slept) = Len(requests) - 1
    /\ \A i \in 1..Len(slept) : requests[i] = "failed"
    /\ \A i \in 1..(Len(requests) - 1) : requests[i] = "failed"

\* C23 witness: AIService.call_gemini_api returned after four failed requests
\* and slept 1, 2 and 4 seconds, 7 in all
C23_Witness ==
    /\ pc = "returned" /\ api = "service"
    /\ requests = <<"failed", "failed", "failed", "failed">>
    /\ slept = <<1, 2, 4>>
    /\ SumOf(slept) = 7

\* the number a Score string displays, in tenths
DigitValue(c) == CHOOSE d \in 0..9 : DigitChars[d + 1] = c

RECURSIVE IntOf(_)
IntOf(s) ==
    IF s = <<>> THEN 0
    ELSE IntOf(SubSeq(s, 1, Len(s) - 1)) * 10 + DigitValue(s[Len(s)])

DisplayedTenths(s) ==
    IF \E i \in 1..Len(s) : s[i] = "."
    THEN LET i == CHOOSE i \in 1..Len(s) : s[i] = "."
         IN  IntOf(SubSeq(s, 1, i - 1)) * 10 + IntOf(SubSeq(s, i + 1, Len(s)))
    ELSE IntOf(s) * 10

\* C24: in every record main builds on the fallback path the Fit agrees with
\* the Score string next to it: High iff the displayed score is >= 7.5, Low
\* iff it is < 5.0
C24_FitMatchesDisplayedScore ==
    (pc = "analyse" /\ fallback_called) =>
        /\ (parsed_data["Fit"] = "High") <=> (DisplayedTenths(parsed_data["Score"]) >= 75)
        /\ (parsed_data["Fit"] = "Low") <=> (DisplayedTenths(parsed_data["Score"]) < 50)

\* C25: app.py main never calls compute_fallback_score with an extraction
\* that is no mapping, whatever the extraction call returned (parsed JSON,
\* the sentinel, raw text), so the fallback never fails and no candidate is
\* dropped
C25_ScorerGetsMapping ==
    (Evaluated /\ fallback_called) => (ext.k = "dict" /\ pc # "failed")

\* C26: in evaluator.compute_fallback_score a candidate missing at least one
\* critical skill is classified fit = "Low", for every choice of weights and
\* other inputs
C26_CriticalIsLow ==
    (Scored /\ out_eval.k = "ok" /\ CriticalAbsent) => out_eval.fit = "Low"

\* C26 witness: weights above 100 and a full profile, a critical skill is
\* absent, app.py's scorer says High and the evaluator's says Low
C26_Witness ==
    /\ Scored /\ out_eval.k = "ok" /\ CriticalAbsent
    /\ ~WeightsInRange(weights)
    /\ Len(MatchedOf(ext)) > 0
    /\ out_app.k = "ok" /\ out_app.fit = "High"
    /\ out_eval.fit = "Low"

\* the five weights as the scorer reads them, and their sum
WeightSum(w) ==
    GetWeight(w.matched_skills_w, 50) + GetWeight(w.experience_relevance_w, 20)
    + GetWeight(w.qualifications_w, 15) + GetWeight(w.seniority_w, 10)
    + GetWeight(w.cv_clarity_w, 5)

\* every weight in [0,100] and the five weights sum to at most 100
WeightsNormal == WeightsInRange(weights) /\ WeightSum(weights) <= 100

\* C27 as stated: with every weight in [0,100] and the weights summing to at
\* most 100, evaluator.compute_fallback_score never classifies a candidate
\* with five or more missing skills as fit = "High"
C27_FiveMissingNotHigh ==
    (Scored /\ out_eval.k = "ok" /\ WeightsNormal
        /\ Len(GetList(ext.missing_skills_full)) >= 5) => out_eval.fit # "High"

\* C27 amended: with every weight in [0,100] and the weights summing to at
\* most 100, evaluator.compute_fallback_score never classifies a candidate
\* with six or more missing skills as fit = "High"
C27_SixMissingNotHigh ==
    (Scored /\ out_eval.k = "ok" /\ WeightsNormal
        /\ Len(GetList(ext.missing_skills_full)) >= 6) => out_eval.fit # "High"

\* C27 witness: six missing skills, all the weight on a full experience
\* component: the score is 10 - 2.4 = 7.6, the highest there is, and the fit
\* is Medium
C27_Witness ==
    /\ Scored /\ out_eval.k = "ok" /\ WeightsNormal
    /\ Len(GetList(ext.missing_skills_full)) = 6
    /\ out_eval.score.n = Thousandths(7600, out_eval.score.t)
    /\ out_eval.fit = "Medium"

\* a critical-skills list with entries, all of them empty or white space
OnlyBlanks(cs) == cs # <<>> /\ \A i \in 1..Len(cs) : Strip(cs[i]) = <<>>

\* C28: both compute_fallback_score ignore the blank entries of the
\* critical-skills list: a list of blank entries only gives the same result
\* (score, fit and rationale, or the same failure) as the empty list, also
\* when no skill is matched
C28_BlankCriticalsIgnored ==
    (Scored /\ OnlyBlanks(crit)) =>
        /\ out_eval = EvalScore(ext, cv_len, weights, <<>>)
        /\ out_app = AppScore(ext, cv_len, weights, <<>>)

\* C28 witness: a list of an empty and a white-space entry, no matched skill,
\* and both scores lie above what a missing critical skill would leave
C28_Witness ==
    /\ Scored /\ crit = <<<<>>, CritBlank>>
    /\ Len(MatchedOf(ext)) = 0
    /\ out_eval.k = "ok" /\ ~ScoreLE(out_eval.score, 4500)
    /\ out_eval.fit # "Low"
    /\ out_app.k = "ok" /\ ~ScoreLE(out_app.score, 4500)

-----------------------------------------------------------------------------
(* sheets_agent.GoogleSheetsAgent.fetch_sheet_data.  One step is one call, *)
(* cut by where it returns: from the cache, with the data it fetched, or   *)
(* with None.  A sheet input is given by its parts between slashes; the    *)
(* data of a worksheet carries where it was read from (sheet id and        *)
(* worksheet) and the revision of the content at that time.                *)

MaxFetches == 3
MaxRev == 2

DefaultName == <<"d","e","f","a","u","l","t">>
IdA == <<"a">>
IdAB == <<"a","_","b">>

\* the parts of a sheet URL
DocsHost == <<"docs.google.com">>
SpreadsheetsPart == <<"spreadsheets">>
UrlOf(id) == <<<<"https:">>, <<>>, DocsHost, SpreadsheetsPart, <<"d">>, id, <<"edit">>>>
UrlWithoutId == <<<<"https:">>, <<>>, DocsHost, SpreadsheetsPart>>

\* "docs.google.com/spreadsheets" in sheet_input
IsSheetsUrl(parts) ==
    \E i \in 1..(Len(parts) - 1) : parts[i] = DocsHost /\ parts[i + 1] = SpreadsheetsPart

\* part == "d" and i + 1 < len(parts)
IdFollows(parts, i) == parts[i] = <<"d">> /\ i + 1 <= Len(parts)

extract_sheet_id(parts) ==
    IF IsSheetsUrl(parts) /\ \E i \in 1..Len(parts) : IdFollows(parts, i)
    THEN parts[(CHOOSE i \in 1..Len(parts) :
                   IdFollows(parts, i) /\ \A j \in 1..(i - 1) : ~IdFollows(parts, j)) + 1]
    ELSE Join(parts, <<"/">>)

\* bool(worksheet_name)
Named(worksheet_name) == worksheet_name.k = "str" /\ worksheet_name.v # <<>>

\* f"{sheet_id}_{worksheet_name or 'default'}"
CacheKey(sheet_id, worksheet_name) ==
    sheet_id \o <<"_">> \o (IF Named(worksheet_name) THEN worksheet_name.v ELSE DefaultName)

\* spreadsheet.worksheet(worksheet_name) if worksheet_name else spreadsheet.sheet1
FirstSheet == [first |-> TRUE, name |-> <<>>]
WorksheetOf(worksheet_name) ==
    IF Named(worksheet_name) THEN [first |-> FALSE, name |-> worksheet_name.v] ELSE FirstSheet

\* pd.DataFrame(data[1:], columns=data[0]) of what the worksheet holds
Frame(sheet_id, worksheet, rev) ==
    [k |-> "frame", sheet_id |-> sheet_id, worksheet |-> worksheet, rev |-> rev]

\* a refresh that keeps the entry the cache already has
CachePutIfAbsent(cache, key, df) ==
    [x \in DOMAIN cache \cup {key} |-> IF x \in DOMAIN cache THEN cache[x] ELSE df]

\* self.data_cache[cache_key] = df
CachePut(cache, key, df) ==
    [x \in DOMAIN cache \cup {key} |-> IF x = key THEN df ELSE cache[x]]

\* the spreadsheets that exist, the inputs and the worksheet names asked for
SheetIds == {IdA, IdAB}
SheetInputs == {<<IdA>>, <<IdAB>>, UrlOf(IdA), UrlWithoutId}
WorksheetNames == {None, Str(DefaultName), Str(<<"b","_","c">>)}

Request(sheet_id_or_url, worksheet_name, use_cache, was_cached, fetched, returned) ==
    [sheet_id_or_url |-> sheet_id_or_url, worksheet_name |-> worksheet_name, use_cache |-> use_cache, was_cached |-> was_cached, fetched |-> fetched, returned |-> returned]

InitSheets ==
    /\ pc = "agent"
    /\ SheetsIdle
    /\ ext = EmptyExtraction
    /\ ext0 = EmptyExtraction
    /\ cv_len = 0
    /\ weights = AllWeights(0)
    /\ crit = <<>>
    /\ out_eval = NotRun
    /\ out_app = NotRun
    /\ prev_eval = NotRun
    /\ prev_app = NotRun
    /\ ParseIdle
    /\ MainIdle
    /\ CallIdle

\* if use_cache and cache_key in self.data_cache: return the cached data
FetchCached ==
    /\ pc = "agent"
    /\ fetches < MaxFetches
    /\ \E sheet_id_or_url \in SheetInputs, worksheet_name \in WorksheetNames :
          LET cache_key == CacheKey(extract_sheet_id(sheet_id_or_url), worksheet_name)
          IN  /\ cache_key \in DOMAIN data_cache
              /\ current_sheet_data' = data_cache[cache_key]
              /\ current_sheet_name' = Str(cache_key)
              /\ request' = Request(sheet_id_or_url, worksheet_name, TRUE, TRUE, None,
                                    data_cache[cache_key])
    /\ fetches' = fetches + 1
    /\ UNCHANGED <<pc, client, data_cache>>
    /\ UNCHANGED <<scoreVars, parseVars, mainVars, callVars>>

\* no cache hit, and the call returns None: authenticate() fails and the
\* client stays unset, or, with a client, the worksheet is empty or the
\* spreadsheet or the worksheet is not found or another exception is raised
FetchFails ==
    /\ pc = "agent"
    /\ fetches < MaxFetches
    /\ \E sheet_id_or_url \in SheetInputs, worksheet_name \in WorksheetNames, use_cache \in BOOLEAN :
          LET cache_key == CacheKey(extract_sheet_id(sheet_id_or_url), worksheet_name)
          IN  /\ ~(use_cache /\ cache_key \in DOMAIN data_cache)
              /\ request' = Request(sheet_id_or_url, worksheet_name, use_cache,
                                    cache_key \in DOMAIN data_cache, None, None)
    /\ client' \in (IF client THEN {TRUE} ELSE {FALSE, TRUE})
    /\ fetches' = fetches + 1
    /\ UNCHANGED <<pc, current_sheet_data, current_sheet_name, data_cache>>
    /\ UNCHANGED <<scoreVars, parseVars, mainVars, callVars>>

\* no cache hit, and the worksheet is read: cache the data and return it
FetchFresh ==
    /\ pc = "agent"
    /\ fetches < MaxFetches
    /\ \E sheet_id_or_url \in SheetInputs, worksheet_name \in WorksheetNames, use_cache \in BOOLEAN, rev \in 1..MaxRev :
          LET sheet_id == extract_sheet_id(sheet_id_or_url)
              cache_key == CacheKey(sheet_id, worksheet_name)
              df == Frame(sheet_id, WorksheetOf(worksheet_name), rev)
          IN  /\ ~(use_cache /\ cache_key \in DOMAIN data_cache)
              /\ sheet_id \in SheetIds
              /\ data_cache' = CachePut(data_cache, cache_key, df)
              /\ current_sheet_data' = df
              /\ current_sheet_name' = Str(cache_key)
              /\ request' = Request(sheet_id_or_url, worksheet_name, use_cache,
                                    cache_key \in DOMAIN data_cache, df, df)
    /\ client' = TRUE
    /\ fetches' = fetches + 1
    /\ UNCHANGED pc
    /\ UNCHANGED <<scoreVars, parseVars, mainVars, callVars>>

NextSheets == FetchCached \/ FetchFails \/ FetchFresh

SpecSheets == InitSheets /\ [][NextSheets]_vars

-----------------------------------------------------------------------------
(* Claims about the sheets agent *)

\* the cache key and the origin of the last request
RequestKey == CacheKey(extract_sheet_id(request.sheet_id_or_url), request.worksheet_name)
CacheHit == request.use_cache /\ request.was_cached

\* no sheet is current, or the current data is the cache entry of its name
CurrentInCache ==
    \/ current_sheet_name = None /\ current_sheet_data = None
    \/ /\ current_sheet_name.k = "str"
       /\ current_sheet_name.v \in DOMAIN data_cache
       /\ current_sheet_data = data_cache[current_sheet_name.v]

\* a call that returns None changes neither the cache nor the current sheet
FailedFetchKeeps ==
    (fetches' = fetches + 1 /\ request'.returned = None)
        => UNCHANGED <<data_cache, current_sheet_data, current_sheet_name>>

\* a call with use_cache=False that returns data has read the worksheet, and
\* the cache entry is what it read
RefreshReplaces ==
    (fetches' = fetches + 1 /\ ~request'.use_cache /\ request'.returned # None) =>
        LET key == CacheKey(extract_sheet_id(request'.sheet_id_or_url), request'.worksheet_name)
        IN  /\ request'.fetched # None
            /\ request'.returned = request'.fetched
            /\ key \in DOMAIN data_cache' /\ data_cache'[key] = request'.fetched
            /\ \A x \in DOMAIN data_cache : x # key => data_cache'[x] = data_cache[x]

\* C29: after any sequence of fetch_sheet_data calls either no sheet is
\* current or current_sheet_data is data_cache[current_sheet_name]; a call
\* that returns None leaves data_cache, current_sheet_data and
\* current_sheet_name unchanged; a successful call with use_cache=False
\* replaces the cache entry with the newly fetched data
C29_CurrentIsCached ==
    /\ []CurrentInCache
    /\ [][FailedFetchKeeps /\ RefreshReplaces]_vars

\* C29 witness: a refresh (use_cache=False) of a cached sheet returned data of
\* another revision than a different entry of the cache keeps, and the
\* current sheet is the refreshed entry
C29_Witness ==
    /\ fetches >= 2
    /\ ~request.use_cache /\ request.was_cached /\ request.returned # None
    /\ request.returned.rev = 2
    /\ current_sheet_name = Str(RequestKey)
    /\ current_sheet_data = request.returned
    /\ data_cache[RequestKey] = request.returned
    /\ \E x \in DOMAIN data_cache : x # RequestKey /\ data_cache[x].rev = 1

\* C30: a cache hit of fetch_sheet_data returns the data of the sheet id and
\* worksheet that were asked for: requests that differ in sheet id or in
\* worksheet (no name given versus a name, too) never share a cache entry
C30_HitReturnsRequested ==
    (CacheHit /\ request.returned # None) =>
        /\ request.returned.sheet_id = extract_sheet_id(request.sheet_id_or_url)
        /\ request.returned.worksheet = WorksheetOf(request.worksheet_name)

====
